---- MODULE Spec2Model ----
(***************************************************************************)
(* Model of the decision-and-risk engine of the Pump.fun sniper:           *)
(* handle_new_token / should_trade_token (src/src/lib.rs) and the Trader   *)
(* (src/src/traders/trader.rs): admission (can_buy), execute_buy,          *)
(* execute_sell, the daily counter, the in-flight flags and the ledger.    *)
(*                                                                         *)
(* Every `.await` on a tokio RwLock, on the RPC client or on the clock is  *)
(* a point where another task of the multi-threaded runtime can run, so    *)
(* each shared read or write is one step of the task that performs it.     *)
(* Time is counted in ticks; one tick stands for a span of milliseconds.   *)
(***************************************************************************)
EXTENDS Integers, FiniteSets, Sequences, TLC

(* ------------------------------ bounds --------------------------------- *)
MaxTime == 3
DayLen == 2
StartTime == 1
Cooldown == 1
MinMarketCap == 2
MaxMarketCap == 3
MinLiquidity == 2
BuyAmount == 2
BalanceReserve == 1
U64Mod == 8
MaxTradesPerHour == 1
EntryPrice == 2
MaxPrice == 4
TakeProfitPct == 50
StopLossPct == 50
MaxEvents == 3
TokenStep == 1

(* --------------------------- program constants ------------------------- *)
SafetyThreshold == 60
HoursPerDay == 24
Hundred == 100
LamportsPerSol == 1000000000
PlaceholderTokens == 1000000000
FullScore == 100
PenaltyNoLock == 35
PenaltyMintNotRevoked == 40
PenaltyHoneypot == 60
PenaltyNoSocialLinks == 10
PenaltyCreatorUnverified == 10
PenaltySuspiciousCreator == 30
SafeScore == 70
SuspiciousScore == 40
BonusSafe == 30
BonusSuspicious == 10
BonusMarketCap == 20
BonusLiquidity == 15
BonusVeryNew == 25
BonusRecent == 15
MarketCapLimit == 10000
LiquidityFloor == 5
VeryNewHours == 1
RecentHours == 6

Buyers == {"b1", "b2"}
Sellers == {"s1", "s2"}
Engines == {"e1"}
Assets == {"a1"}
ScoreValues == {SafetyThreshold - 1, SafetyThreshold}
MarketCapValues == {MinMarketCap - 1, MinMarketCap, MaxMarketCap, MaxMarketCap + 1}
LiquidityValues == {MinLiquidity - 1, MinLiquidity}
BalanceValues == {BuyAmount + BalanceReserve - 1, BuyAmount + BalanceReserve}
Percentages == {50, Hundred}
PriceValues == {EntryPrice}
Events == 1..MaxEvents
MessageKinds == {"create", "other", "close", "error"}

(* f64 quantities of the analyzer are kept as exact fractions of integers. *)
RECURSIVE GCD(_, _)
GCD(a, b) == IF b = 0 THEN a ELSE GCD(b, a % b)

\* The fraction n / d (n >= 0, d > 0) in lowest terms.
Rat(n, d) == [num |-> n \div GCD(n, d), den |-> d \div GCD(n, d)]
RatAdd(a, b) == Rat(a.num * b.den + b.num * a.den, a.den * b.den)
\* a / k for an integer k >= 1, a * k for an integer k >= 0.
RatDivInt(a, k) == [num |-> a.num \div GCD(a.num, k), den |-> a.den * (k \div GCD(a.num, k))]
RatMulInt(a, k) ==
    IF k = 0 THEN Rat(0, 1)
    ELSE [num |-> a.num * (k \div GCD(k, a.den)), den |-> a.den \div GCD(k, a.den)]
\* a < k, a >= k and a > 0 for an integer k.
RatBelow(a, k) == a.num \div a.den < k
RatAtLeast(a, k) == a.num \div a.den >= k
RatPositive(a) == a.num > 0
Max(a, b) == IF a >= b THEN a ELSE b
Min(a, b) == IF a <= b THEN a ELSE b

Analyzers == {"z1", "z2"}
Statuses == {"Safe", "Suspicious", "Dangerous"}
SolReserves == {0, LamportsPerSol \div 2, LamportsPerSol}
TokenReserves == {0, TokenStep, PlaceholderTokens}
BondingCurves ==
    [virtual_sol_reserves : {0, LamportsPerSol}, virtual_token_reserves : TokenReserves,
     real_sol_reserves : SolReserves, real_token_reserves : TokenReserves,
     token_total_supply : {TokenStep, PlaceholderTokens}, complete : BOOLEAN]
\* What get_bonding_curve_info decodes: the placeholder curve, or a completed one.
FetchedCurves ==
    [virtual_sol_reserves : {LamportsPerSol}, virtual_token_reserves : {PlaceholderTokens},
     real_sol_reserves : {0}, real_token_reserves : {0, TokenStep},
     token_total_supply : {PlaceholderTokens}, complete : BOOLEAN]
AllChecks ==
    [has_lock : BOOLEAN, mint_revoked : BOOLEAN, is_honeypot : BOOLEAN,
     has_social_links : BOOLEAN, creator_verified : BOOLEAN, suspicious_creator : BOOLEAN]
MetricsValues ==
    [price : {Rat(1, 1)},
     market_cap : {Rat(0, 1), Rat(1, 2), Rat(MarketCapLimit - 1, 1), Rat(MarketCapLimit, 1)},
     liquidity : {Rat(2 * LiquidityFloor - 1, 2), Rat(LiquidityFloor, 1)}]
AgeHours == {0 - 1, 0, VeryNewHours, RecentHours - 1, RecentHours}

NoCurve == [virtual_sol_reserves |-> 0, virtual_token_reserves |-> 0, real_sol_reserves |-> 0,
            real_token_reserves |-> 0, token_total_supply |-> 0, complete |-> FALSE]
NoChecks == [has_lock |-> FALSE, mint_revoked |-> FALSE, is_honeypot |-> FALSE,
             has_social_links |-> FALSE, creator_verified |-> FALSE,
             suspicious_creator |-> FALSE]
NoMetrics == [price |-> Rat(0, 1), market_cap |-> Rat(0, 1), liquidity |-> Rat(0, 1)]
NoSafety == [status |-> "None", score |-> 0, checks |-> NoChecks]
NoOpportunities == [score |-> 0, reasons |-> <<>>]
NoTokenInfo == [has_social_links |-> FALSE, created_at |-> 0]
AnalyzerLocals0 ==
    [call |-> "none", token |-> NoTokenInfo, bonding_curve |-> NoCurve, metrics |-> NoMetrics,
     safety |-> NoSafety, opportunities |-> NoOpportunities, age_hours |-> 0]

NoAnalysis == [score |-> 0, market_cap |-> 0, liquidity |-> 0, price |-> 0]
NoPosition == [amount |-> 0, status |-> "None", entry_price |-> 0, current_price |-> 0,
               pnl |-> 0, pnl_percentage |-> 0, take_profit_price |-> 0, stop_loss_price |-> 0]

VARIABLES
    config,            \* BotConfig: knobs read by the trader
    now,               \* the wall clock (SystemTime::now / Utc::now)
    positions,         \* Trader.positions: asset -> Position or NoPosition
    is_buying,         \* Trader.is_buying
    is_selling,        \* Trader.is_selling
    last_buy_time,     \* Trader.last_buy_time
    daily_trades,      \* Trader.daily_trades
    last_reset_date,   \* Trader.last_reset_date
    pc,                \* position of every task in its handler
    bl,                \* locals of a task running handle_new_token/execute_buy
    sl,                \* locals of a task running execute_sell (or an exit tick)
    wrote,             \* history: shared writes made so far by a running buy call;
                       \* for an exit engine, the sells it had rejected
    monitor,           \* PumpFunSniper.monitor: Option<PumpFunMonitor>
    is_monitoring,     \* PumpFunMonitor.is_monitoring
    event_receiver,    \* where the receiving end of the channel is
    channel,           \* the events in the unbounded mpsc channel
    mpc,               \* position of the main task, the feed loop and the dispatch loop
    handler,           \* the handler task spawned for each event
    sent,              \* history: the events enqueued so far, in order
    delivered,         \* history: the events the callback was invoked with, in order
    twin,              \* the same requests run by a trader in simulation mode
    an,                \* arguments and result of the last call of each analyzer task
    consumer,          \* a second caller of PumpFunMonitor::on_new_token
    status_call,       \* a caller of Trader::status: its position, the values it has read,
                       \* and (history) the positions that were Open or Partial when it counted
    tick               \* a trader holding two positions and the exit tick that runs on it:
                       \* the trader's fields, the clones still to visit, the result of the
                       \* tick and (history) the positions the tick has visited

\* The state outside the Trader.
outer_state == <<monitor, is_monitoring, event_receiver, channel, mpc, handler, sent, delivered,
                twin, an>>

\* The callers of the public API beside the sniper's own tasks.
api_state == <<consumer, status_call, tick>>

vars == <<config, now, positions, is_buying, is_selling, last_buy_time,
          daily_trades, last_reset_date, pc, bl, sl, wrote, outer_state, api_state>>

trader_state == <<positions, is_buying, is_selling, last_buy_time,
                  daily_trades, last_reset_date>>

(* ------------------------------ helpers -------------------------------- *)
\* Utc::now().format("%Y-%m-%d"): the calendar day of an instant.
Date(t) == t \div DayLen

\* u64 subtraction as a release build computes it (wrapping).
Sub64(a, b) == IF a >= b THEN a - b ELSE U64Mod - (b - a)

\* config.max_trades_per_hour * 24
DailyCap == config.max_trades_per_hour * HoursPerDay

BuyLocals0 == [asset |-> "a1", analysis |-> NoAnalysis, now |-> 0, today |-> 0, balance |-> 0]
SellLocals0 == [asset |-> "a1", position |-> NoPosition, percentage |-> 0, amount_to_sell |-> 0,
                call_site |-> "none"]

\* The filter without its liquidity test.
should_trade_token_no_liquidity(a) ==
    IF a.score < SafetyThreshold THEN FALSE
    ELSE IF a.market_cap < config.min_market_cap \/ a.market_cap > config.max_market_cap THEN FALSE
    ELSE TRUE

(* lib.rs should_trade_token *)
should_trade_token(a) ==
    IF a.score < SafetyThreshold THEN FALSE
    ELSE IF a.market_cap < config.min_market_cap \/ a.market_cap > config.max_market_cap THEN FALSE
    ELSE IF a.liquidity < config.min_liquidity THEN FALSE
    ELSE TRUE

(* trader.rs Trader::create_position: the Position of a successful buy *)
\* price * (1.0 + percentage / 100.0), price * (1.0 - percentage / 100.0)
PriceAbove(price, percentage) == (price * (Hundred + percentage)) \div Hundred
PriceBelow(price, percentage) == (price * (Hundred - percentage)) \div Hundred

\* Position { amount: buy_amount_sol * 1_000_000, entry_price: price, current_price: price,
\*            pnl: 0, pnl_percentage: 0, take_profit_price, stop_loss_price, status: Open }
NewPosition(price) ==
    [amount |-> BuyAmount, status |-> "Open", entry_price |-> price, current_price |-> price,
     pnl |-> 0, pnl_percentage |-> 0,
     take_profit_price |-> PriceAbove(price, config.take_profit_percentage),
     stop_loss_price |-> PriceBelow(price, config.stop_loss_percentage)]

\* The assets of the trader that the exit tick of `tick` runs on.
TickAssets == {"p1", "p2"}

StatusLocals0 ==
    [pc |-> "idle", positions_count |-> 0, is_buying |-> FALSE, is_selling |-> FALSE,
     daily_trades |-> 0, open_or_partial |-> 0]

(* ------------------------------- Init ---------------------------------- *)
\* Trader::new as a value: the fields of a fresh trader.
TraderState0 ==
    [positions |-> [a \in Assets |-> NoPosition], is_buying |-> FALSE, is_selling |-> FALSE,
     last_buy_time |-> 0, daily_trades |-> 0, last_reset_date |-> Date(StartTime)]

\* PumpFunSniper::new: no monitor yet (lib.rs:36); nothing runs but the main task.
InitOuter ==
    /\ monitor = "None"
    /\ is_monitoring = FALSE
    /\ event_receiver = "None"
    /\ channel = <<>>
    /\ mpc = [main |-> "constructed", feed |-> "none", dispatch |-> "none"]
    /\ handler = [n \in Events |-> "none"]
    /\ sent = <<>>
    /\ delivered = <<>>
    /\ twin = [phase |-> "ready", state |-> TraderState0]
    /\ an = [z \in Analyzers |-> AnalyzerLocals0]

\* No caller of the public API has run.
InitApi ==
    /\ consumer = "idle"
    /\ status_call = StatusLocals0
    /\ tick = [pc |-> "idle",
               state |-> [positions |-> [a \in TickAssets |-> NewPosition(EntryPrice)],
                          is_selling |-> FALSE],
               queue |-> <<>>, visited |-> {}, result |-> "none"]

InitTrader(sim, cooldown, perHour, takeProfit, stopLoss) ==
    /\ config = [simulation_mode |-> sim,
                 trading_cooldown_ms |-> cooldown,
                 max_trades_per_hour |-> perHour,
                 take_profit_percentage |-> takeProfit,
                 stop_loss_percentage |-> stopLoss,
                 min_market_cap |-> MinMarketCap,
                 max_market_cap |-> MaxMarketCap,
                 min_liquidity |-> MinLiquidity]
    /\ now = StartTime
    /\ positions = [a \in Assets |-> NoPosition]
    /\ is_buying = FALSE
    /\ is_selling = FALSE
    /\ last_buy_time = 0
    /\ daily_trades = 0
    /\ last_reset_date = Date(StartTime)
    /\ pc = [t \in Buyers \cup Sellers \cup Engines |-> "idle"]
    /\ bl = [t \in Buyers |-> BuyLocals0]
    /\ sl = [t \in Sellers \cup Engines |-> SellLocals0]
    /\ wrote = [t \in Buyers \cup Engines |-> {}]
    /\ InitOuter
    /\ InitApi

InitWith(sim, cooldown, perHour) ==
    InitTrader(sim, cooldown, perHour, TakeProfitPct, StopLossPct)

Init == \E sim \in BOOLEAN : InitWith(sim, Cooldown, MaxTradesPerHour)

(* --------------------------- task plumbing ----------------------------- *)
Goto(t, label) == pc' = [pc EXCEPT ![t] = label]

\* A buy task's handler returns: its locals die with it.
Return(t) ==
    /\ pc' = [pc EXCEPT ![t] = "idle"]
    /\ bl' = [bl EXCEPT ![t] = BuyLocals0]
    /\ wrote' = [wrote EXCEPT ![t] = {}]

(* the clock *)
Tick ==
    /\ now < MaxTime
    /\ now' = now + 1
    /\ UNCHANGED <<api_state, outer_state, config, trader_state, pc, bl, sl, wrote>>

(* ------------------- lib.rs handle_new_token --------------------------- *)
\* analyze_token returned an analysis: the handler holds it.
handle_new_token(t) ==
    /\ pc[t] = "idle"
    /\ \E a \in Assets, sc \in ScoreValues, mc \in MarketCapValues, lq \in LiquidityValues,
          pr \in PriceValues :
          bl' = [bl EXCEPT ![t] = [BuyLocals0 EXCEPT !.asset = a,
                     !.analysis = [score |-> sc, market_cap |-> mc, liquidity |-> lq,
                                   price |-> pr]]]
    /\ Goto(t, "filter")
    /\ UNCHANGED <<api_state, outer_state, config, now, trader_state, sl, wrote>>

\* analyze_token failed: `?` returns the error, nothing else runs.
handle_new_token_analysis_error(t) ==
    /\ pc[t] = "idle"
    /\ Return(t)
    /\ UNCHANGED <<api_state, outer_state, config, now, trader_state, sl>>

\* if should_trade_token(..) { trader.execute_buy(..) } else { filtered out }
handle_new_token_filter(t) ==
    /\ pc[t] = "filter"
    /\ IF should_trade_token(bl[t].analysis)
          THEN /\ Goto(t, "can_buy_now")
               /\ bl' = [bl EXCEPT ![t].analysis =
                            [NoAnalysis EXCEPT !.price = bl[t].analysis.price]]
               /\ UNCHANGED wrote
          ELSE /\ Return(t)
    /\ UNCHANGED <<api_state, outer_state, config, now, trader_state, sl>>

(* ------------------- trader.rs Trader::can_buy ------------------------- *)
\* let now = SystemTime::now()...as_millis() as u64;
can_buy_now(t) ==
    /\ pc[t] = "can_buy_now"
    /\ bl' = [bl EXCEPT ![t].now = now]
    /\ Goto(t, "can_buy_cooldown")
    /\ UNCHANGED <<api_state, outer_state, config, now, trader_state, sl, wrote>>

\* The cooldown test on the values read: now - last_buy < trading_cooldown_ms.
CooldownActive(now_read, last_buy) ==
    Sub64(now_read, last_buy) < config.trading_cooldown_ms

\* let last_buy = *self.last_buy_time.read().await; if now - last_buy < cooldown { return false }
can_buy_cooldown(t) ==
    /\ pc[t] = "can_buy_cooldown"
    /\ IF CooldownActive(bl[t].now, last_buy_time)
          THEN /\ Return(t)
          ELSE /\ Goto(t, "reset_check")
               /\ bl' = [bl EXCEPT ![t].now = 0]
               /\ UNCHANGED wrote
    /\ UNCHANGED <<api_state, outer_state, config, now, trader_state, sl>>

\* `now - last_buy` with last_buy > now: a build with overflow checks panics
\* here (the spawned task ends), a release build wraps (can_buy_cooldown).
can_buy_cooldown_panic(t) ==
    /\ pc[t] = "can_buy_cooldown"
    /\ bl[t].now < last_buy_time
    /\ Return(t)
    /\ UNCHANGED <<api_state, outer_state, config, now, trader_state, sl>>

(* ------------- trader.rs Trader::reset_daily_trades_if_needed ---------- *)
\* let today = Utc::now()...; if today != *self.last_reset_date.read().await
reset_daily_trades_if_needed(t) ==
    /\ pc[t] = "reset_check"
    /\ IF Date(now) # last_reset_date
          THEN /\ bl' = [bl EXCEPT ![t].today = Date(now)]
               /\ Goto(t, "reset_count")
          ELSE /\ bl' = bl
               /\ Goto(t, "can_buy_cap")
    /\ UNCHANGED <<api_state, outer_state, config, now, trader_state, sl, wrote>>

\* What a reset leaves in the history: that it ran, and whether it cleared a count.
ResetMarks(count) == {"daily_reset"} \cup (IF count # 0 THEN {"daily_cleared"} ELSE {})

\* The reset without its write of 0: the counter is carried into the new day.
reset_daily_trades_count_carried(t) ==
    /\ pc[t] = "reset_count"
    /\ daily_trades' = daily_trades
    /\ wrote' = [wrote EXCEPT ![t] = @ \cup ResetMarks(daily_trades)]
    /\ Goto(t, "reset_key")
    /\ UNCHANGED <<api_state, outer_state, config, now, positions, is_buying, is_selling, last_buy_time,
                   last_reset_date, bl, sl>>

\* *self.daily_trades.write().await = 0;
reset_daily_trades_count(t) ==
    /\ pc[t] = "reset_count"
    /\ daily_trades' = 0
    /\ wrote' = [wrote EXCEPT ![t] = @ \cup ResetMarks(daily_trades)]
    /\ Goto(t, "reset_key")
    /\ UNCHANGED <<api_state, outer_state, config, now, positions, is_buying, is_selling, last_buy_time,
                   last_reset_date, bl, sl>>

\* *self.last_reset_date.write().await = today;
reset_daily_trades_key(t) ==
    /\ pc[t] = "reset_key"
    /\ last_reset_date' = bl[t].today
    /\ bl' = [bl EXCEPT ![t].today = 0]
    /\ Goto(t, "can_buy_cap")
    /\ UNCHANGED <<api_state, outer_state, config, now, positions, is_buying, is_selling, last_buy_time,
                   daily_trades, sl, wrote>>

\* if *self.daily_trades.read().await >= max_trades_per_hour * 24 { return false }
can_buy_cap(t) ==
    /\ pc[t] = "can_buy_cap"
    /\ IF daily_trades >= DailyCap
          THEN /\ Return(t)
          ELSE /\ Goto(t, "can_buy_in_flight")
               /\ UNCHANGED <<bl, wrote>>
    /\ UNCHANGED <<api_state, outer_state, config, now, trader_state, sl>>

\* can_buy without its last test: the in-flight flag is not consulted.
can_buy_in_flight_unchecked(t) ==
    /\ pc[t] = "can_buy_in_flight"
    /\ Goto(t, IF config.simulation_mode THEN "track_now" ELSE "balance")
    /\ UNCHANGED <<bl, wrote>>
    /\ UNCHANGED <<api_state, outer_state, config, now, trader_state, sl>>

\* if *self.is_buying.read().await { return false }  true
\* and, back in execute_buy, the branch on config.simulation_mode.
can_buy_in_flight(t) ==
    /\ pc[t] = "can_buy_in_flight"
    /\ IF is_buying
          THEN /\ Return(t)
          ELSE /\ Goto(t, IF config.simulation_mode THEN "track_now" ELSE "balance")
               /\ UNCHANGED <<bl, wrote>>
    /\ UNCHANGED <<api_state, outer_state, config, now, trader_state, sl>>

(* ------------------- trader.rs Trader::execute_buy --------------------- *)
\* let balance = self.client.get_wallet_balance().await?;   (the Ok case)
execute_buy_balance(t) ==
    /\ pc[t] = "balance"
    /\ \E balance \in BalanceValues : bl' = [bl EXCEPT ![t].balance = balance]
    /\ Goto(t, "balance_check")
    /\ UNCHANGED <<api_state, outer_state, config, now, trader_state, sl, wrote>>

\* balance < self.config.buy_amount_sol + 0.01
InsufficientBalance(balance) == balance < BuyAmount + BalanceReserve

\* if balance < self.config.buy_amount_sol + 0.01 { return Ok(()) }
execute_buy_balance_check(t) ==
    /\ pc[t] = "balance_check"
    /\ IF InsufficientBalance(bl[t].balance)
          THEN /\ Return(t)
          ELSE /\ Goto(t, "set_is_buying")
               /\ bl' = [bl EXCEPT ![t].balance = 0]
               /\ UNCHANGED wrote
    /\ UNCHANGED <<api_state, outer_state, config, now, trader_state, sl>>

\* get_wallet_balance failed (no keypair, RPC error): `?` returns the error.
execute_buy_balance_error(t) ==
    /\ pc[t] = "balance"
    /\ Return(t)
    /\ UNCHANGED <<api_state, outer_state, config, now, trader_state, sl>>

\* *self.is_buying.write().await = true;
execute_buy_set_is_buying(t) ==
    /\ pc[t] = "set_is_buying"
    /\ is_buying' = TRUE
    /\ wrote' = [wrote EXCEPT ![t] = @ \cup {"is_buying"}]
    /\ Goto(t, "build_buy")
    /\ UNCHANGED <<api_state, outer_state, config, now, positions, is_selling, last_buy_time, daily_trades,
                   last_reset_date, bl, sl>>

\* build_buy_transaction(..).await? : Ok continues, Err returns the error.
execute_buy_build(t) ==
    /\ pc[t] = "build_buy"
    /\ \E ok \in BOOLEAN :
          IF ok THEN /\ Goto(t, "send_buy")
                     /\ UNCHANGED <<bl, wrote>>
                ELSE /\ Return(t)
    /\ UNCHANGED <<api_state, outer_state, config, now, trader_state, sl>>

\* The send whose failure is not noticed: tracking and the ledger follow anyway.
execute_buy_send_unnoticed(t) ==
    /\ pc[t] = "send_buy"
    /\ \E ok \in BOOLEAN :
          /\ Goto(t, "track_now")
          /\ wrote' = [wrote EXCEPT ![t] = @ \cup (IF ok THEN {"sent"} ELSE {})]
          /\ UNCHANGED bl
    /\ UNCHANGED <<api_state, outer_state, config, now, trader_state, sl>>

\* match self.client.send_transaction(transaction).await { Ok(..) => .., Err(e) => Ok(()) }
execute_buy_send(t) ==
    /\ pc[t] = "send_buy"
    /\ \E ok \in BOOLEAN :
          IF ok THEN /\ Goto(t, "track_now")
                     /\ wrote' = [wrote EXCEPT ![t] = @ \cup {"sent"}]
                     /\ UNCHANGED bl
                ELSE /\ Return(t)
    /\ UNCHANGED <<api_state, outer_state, config, now, trader_state, sl>>

(* ------------------- trader.rs Trader::update_buy_tracking ------------- *)
\* let now = SystemTime::now()...as_millis() as u64;
update_buy_tracking_now(t) ==
    /\ pc[t] = "track_now"
    /\ bl' = [bl EXCEPT ![t].now = now]
    /\ Goto(t, "track_last")
    /\ UNCHANGED <<api_state, outer_state, config, now, trader_state, sl, wrote>>

\* *self.last_buy_time.write().await = now;
update_buy_tracking_last(t) ==
    /\ pc[t] = "track_last"
    /\ last_buy_time' = bl[t].now
    /\ bl' = [bl EXCEPT ![t].now = 0]
    /\ wrote' = [wrote EXCEPT ![t] = @ \cup {"last_buy_time"}]
    /\ Goto(t, "track_count")
    /\ UNCHANGED <<api_state, outer_state, config, now, positions, is_buying, is_selling, daily_trades,
                   last_reset_date, sl>>

\* The counter bumped twice for one buy.
update_buy_tracking_count_twice(t) ==
    /\ pc[t] = "track_count"
    /\ daily_trades' = daily_trades + 2
    /\ wrote' = [wrote EXCEPT ![t] = @ \cup {"daily_inc"}]
    /\ Goto(t, "create_position")
    /\ UNCHANGED <<api_state, outer_state, config, now, positions, is_buying, is_selling, last_buy_time,
                   last_reset_date, bl, sl>>

\* *self.daily_trades.write().await += 1;
update_buy_tracking_count(t) ==
    /\ pc[t] = "track_count"
    /\ daily_trades' = daily_trades + 1
    /\ wrote' = [wrote EXCEPT ![t] = @ \cup {"daily_inc"}]
    /\ Goto(t, "create_position")
    /\ UNCHANGED <<api_state, outer_state, config, now, positions, is_buying, is_selling, last_buy_time,
                   last_reset_date, bl, sl>>

(* ------------------- trader.rs Trader::create_position ----------------- *)
\* An insert that adds to the entry it finds instead of replacing it.
create_position_added(t) ==
    /\ pc[t] = "create_position"
    /\ positions' = [positions EXCEPT ![bl[t].asset] =
                        [NewPosition(bl[t].analysis.price) EXCEPT !.amount = @ + positions[bl[t].asset].amount]]
    /\ Return(t)
    /\ UNCHANGED <<api_state, outer_state, config, now, is_buying, is_selling, last_buy_time, daily_trades,
                   last_reset_date, sl>>

\* self.positions.write().await.insert(token_address, position)
create_position(t) ==
    /\ pc[t] = "create_position"
    /\ positions' = [positions EXCEPT ![bl[t].asset] = NewPosition(bl[t].analysis.price)]
    /\ Return(t)
    /\ UNCHANGED <<api_state, outer_state, config, now, is_buying, is_selling, last_buy_time, daily_trades,
                   last_reset_date, sl>>

(* ------------------- trader.rs Trader::execute_sell -------------------- *)
\* A sell task's handler returns: its locals die with it.
SellReturn(s) ==
    /\ pc' = [pc EXCEPT ![s] = "idle"]
    /\ sl' = [sl EXCEPT ![s] = SellLocals0]

\* ((position.amount as f64) * percentage / 100.0) as u64
AmountToSell(amount, percentage) == (amount * percentage) \div Hundred

\* A caller holds a clone of a ledger entry and calls execute_sell(&position, percentage).
execute_sell(s) ==
    /\ pc[s] = "idle"
    /\ \E a \in Assets, pct \in Percentages :
          /\ positions[a] # NoPosition
          /\ sl' = [sl EXCEPT ![s] = [asset |-> a, position |-> positions[a],
                                      percentage |-> pct, amount_to_sell |-> 0,
                                      call_site |-> "caller"]]
    /\ Goto(s, "sell_check")
    /\ UNCHANGED <<api_state, outer_state, config, now, trader_state, bl, wrote>>

\* if *self.is_selling.read().await { return Ok(()) }
\* if simulation_mode { return self.simulate_sell(..) };  let amount_to_sell = ..
execute_sell_check(s) ==
    /\ pc[s] = "sell_check"
    /\ IF is_selling
          THEN SellReturn(s)
          ELSE /\ sl' = [sl EXCEPT ![s].amount_to_sell =
                            AmountToSell(sl[s].position.amount, sl[s].percentage)]
               /\ Goto(s, IF config.simulation_mode THEN "settle" ELSE "set_is_selling")
    /\ wrote' = IF s \in Engines
                   THEN [wrote EXCEPT ![s] = IF is_selling THEN {"rejected"} ELSE {}]
                   ELSE wrote
    /\ UNCHANGED <<api_state, outer_state, config, now, trader_state, bl>>

\* *self.is_selling.write().await = true;
execute_sell_set_is_selling(s) ==
    /\ pc[s] = "set_is_selling"
    /\ is_selling' = TRUE
    /\ Goto(s, "build_sell")
    /\ UNCHANGED <<api_state, outer_state, config, now, positions, is_buying, last_buy_time, daily_trades,
                   last_reset_date, bl, sl, wrote>>

\* build_sell_transaction(..).await? : Ok continues, Err returns the error.
execute_sell_build(s) ==
    /\ pc[s] = "build_sell"
    /\ \E ok \in BOOLEAN :
          IF ok THEN /\ Goto(s, "send_sell")
                     /\ UNCHANGED sl
                ELSE SellReturn(s)
    /\ UNCHANGED <<api_state, outer_state, config, now, trader_state, bl, wrote>>

\* match self.client.send_transaction(transaction).await { Ok(..) => .., Err(e) => Ok(()) }
execute_sell_send(s) ==
    /\ pc[s] = "send_sell"
    /\ \E ok \in BOOLEAN :
          IF ok THEN /\ Goto(s, "settle")
                     /\ UNCHANGED sl
                ELSE SellReturn(s)
    /\ UNCHANGED <<api_state, outer_state, config, now, trader_state, bl, wrote>>

(* ------------------- trader.rs Trader::update_position_after_sell ------ *)
\* pos.amount -= amount_sold; status = Closed if amount == 0 else Partial
\* A settlement that never closes.
SettledPosition_never_closed(pos, amount_sold) ==
    [pos EXCEPT !.amount = Sub64(pos.amount, amount_sold), !.status = "Partial"]

SettledPosition(pos, amount_sold) ==
    [pos EXCEPT !.amount = Sub64(pos.amount, amount_sold),
                !.status = IF Sub64(pos.amount, amount_sold) = 0 THEN "Closed" ELSE "Partial"]

update_position_after_sell(s) ==
    /\ pc[s] = "settle"
    /\ positions' = [positions EXCEPT ![sl[s].asset] = SettledPosition(@, sl[s].amount_to_sell)]
    /\ SellReturn(s)
    /\ UNCHANGED <<api_state, outer_state, config, now, is_buying, is_selling, last_buy_time, daily_trades,
                   last_reset_date, bl, wrote>>

\* `pos.amount -= amount_sold` with amount_sold > pos.amount: a build with overflow
\* checks panics here, a release build wraps (update_position_after_sell).
update_position_after_sell_panic(s) ==
    /\ pc[s] = "settle"
    /\ positions[sl[s].asset].amount < sl[s].amount_to_sell
    /\ SellReturn(s)
    /\ UNCHANGED <<api_state, outer_state, config, now, trader_state, bl, wrote>>

(* ------------------- trader.rs Trader::check_automated_sells ----------- *)
\* position.current_price >= tp_price
should_take_profit(position) == position.current_price >= position.take_profit_price

\* position.current_price <= sl_price
should_stop_loss(position) == position.current_price <= position.stop_loss_price

\* position.current_price * (1.0 + price_change), price_change random in [-5%, +5%):
\* one unit of the price grid down, none, or one up; a price stays positive.
PriceMoves(price) == {q \in 1..MaxPrice : q - price \in {-1, 0, 1}}

\* pos.current_price = new_price; pos.pnl = ..; pos.pnl_percentage = ..
update_position_price(pos, new_price) ==
    [pos EXCEPT !.current_price = new_price,
                !.pnl = (new_price - pos.entry_price) * pos.amount,
                !.pnl_percentage = ((new_price - pos.entry_price) * Hundred) \div pos.entry_price]

\* let positions: Vec<Position> = self.positions.read().await.values().cloned().collect();
\* (the ledger of the model has one asset: the loop has at most one round)
check_automated_sells(e) ==
    /\ pc[e] = "idle"
    /\ \E a \in Assets :
          /\ positions[a] # NoPosition
          /\ sl' = [sl EXCEPT ![e] = [SellLocals0 EXCEPT !.asset = a, !.position = positions[a]]]
    /\ Goto(e, "refresh")
    /\ UNCHANGED <<api_state, outer_state, config, now, trader_state, bl, wrote>>

\* The exit tests in the other order: stop-loss first.
check_automated_sells_position_stop_loss_first(e) ==
    /\ pc[e] = "refresh"
    /\ \E new_price \in PriceMoves(sl[e].position.current_price) :
          positions' = [positions EXCEPT ![sl[e].asset] = update_position_price(@, new_price)]
    /\ IF should_stop_loss(sl[e].position)
          THEN /\ sl' = [sl EXCEPT ![e].percentage = Hundred, ![e].call_site = "stop_loss"]
               /\ Goto(e, "sell_check")
          ELSE IF should_take_profit(sl[e].position)
          THEN /\ sl' = [sl EXCEPT ![e].percentage = Hundred, ![e].call_site = "take_profit"]
               /\ Goto(e, "sell_check")
          ELSE SellReturn(e)
    /\ UNCHANGED <<api_state, outer_state, config, now, is_buying, is_selling, last_buy_time, daily_trades,
                   last_reset_date, bl, wrote>>

\* An exit test that fires once: a position whose sell was rejected is not routed again.
check_automated_sells_position_edge(e) ==
    /\ pc[e] = "refresh"
    /\ \E new_price \in PriceMoves(sl[e].position.current_price) :
          positions' = [positions EXCEPT ![sl[e].asset] = update_position_price(@, new_price)]
    /\ IF "rejected" \in wrote[e]
          THEN SellReturn(e)
          ELSE IF should_take_profit(sl[e].position)
          THEN /\ sl' = [sl EXCEPT ![e].percentage = Hundred, ![e].call_site = "take_profit"]
               /\ Goto(e, "sell_check")
          ELSE IF should_stop_loss(sl[e].position)
          THEN /\ sl' = [sl EXCEPT ![e].percentage = Hundred, ![e].call_site = "stop_loss"]
               /\ Goto(e, "sell_check")
          ELSE SellReturn(e)
    /\ UNCHANGED <<api_state, outer_state, config, now, is_buying, is_selling, last_buy_time, daily_trades,
                   last_reset_date, bl, wrote>>

\* One round of the loop, up to the first await of execute_sell:
\*   self.update_position_price(&position).await?;
\*   if self.should_take_profit(&position) { self.execute_sell(&position, 100.0).await?; }
\*   else if self.should_stop_loss(&position) { self.execute_sell(&position, 100.0).await?; }
check_automated_sells_position(e) ==
    /\ pc[e] = "refresh"
    /\ \E new_price \in PriceMoves(sl[e].position.current_price) :
          positions' = [positions EXCEPT ![sl[e].asset] = update_position_price(@, new_price)]
    /\ IF should_take_profit(sl[e].position)
          THEN /\ sl' = [sl EXCEPT ![e].percentage = Hundred, ![e].call_site = "take_profit"]
               /\ Goto(e, "sell_check")
          ELSE IF should_stop_loss(sl[e].position)
          THEN /\ sl' = [sl EXCEPT ![e].percentage = Hundred, ![e].call_site = "stop_loss"]
               /\ Goto(e, "sell_check")
          ELSE SellReturn(e)
    /\ UNCHANGED <<api_state, outer_state, config, now, is_buying, is_selling, last_buy_time, daily_trades,
                   last_reset_date, bl, wrote>>

(* ------------------- trader.rs Trader::stop ---------------------------- *)
stop ==
    /\ is_buying' = FALSE
    /\ is_selling' = FALSE
    /\ UNCHANGED <<api_state, outer_state, config, now, positions, last_buy_time, daily_trades,
                   last_reset_date, pc, bl, sl, wrote>>

(* ------------------- lib.rs PumpFunSniper::start ----------------------- *)
\* The monitor value exists (and with it its event_sender) from PumpFunMonitor::new
\* until PumpFunSniper::stop lets go of it.
MonitorAlive ==
    mpc.main \in {"on_new_token", "store", "started", "start_set", "start_ws",
                  "monitor_stop", "monitor_stop_set", "monitor_stop_close"}

\* The feed loop holds a clone of event_sender while it runs.
FeedAlive == mpc.feed \in {"read", "check"}

\* The main task has not called std::process::exit.
Running == mpc.main # "exited"

\* PumpFunMonitor::new: the channel is created, the monitor holds both ends.
PumpFunSniper_start(m) ==
    /\ mpc[m] = "constructed"
    /\ event_receiver' = "Some"
    /\ mpc' = [mpc EXCEPT ![m] = "on_new_token"]
    /\ UNCHANGED <<api_state, config, now, trader_state, pc, bl, sl, wrote, twin, an,
                   monitor, is_monitoring, channel, handler, sent, delivered>>

\* let mut receiver = self.event_receiver.write().await.take().unwrap();
\* tokio::spawn(async move { while let Some(event) = receiver.recv().await { .. } })
on_new_token(m) ==
    /\ mpc[m] = "on_new_token"
    /\ event_receiver = "Some"
    /\ event_receiver' = "Taken"
    /\ mpc' = [mpc EXCEPT ![m] = "store", !.dispatch = "recv"]
    /\ UNCHANGED <<api_state, config, now, trader_state, pc, bl, sl, wrote, twin, an,
                   monitor, is_monitoring, channel, handler, sent, delivered>>

\* *self.monitor.write().await = Some(monitor);
PumpFunSniper_start_store(m) ==
    /\ mpc[m] = "store"
    /\ monitor' = "Some"
    /\ mpc' = [mpc EXCEPT ![m] = "started"]
    /\ UNCHANGED <<api_state, config, now, trader_state, pc, bl, sl, wrote, twin, an,
                   is_monitoring, event_receiver, channel, handler, sent, delivered>>

(* ------------------- pump_fun_monitor.rs PumpFunMonitor::start --------- *)
\* if *self.is_monitoring.read().await { return Ok(()) }
PumpFunMonitor_start(m) ==
    /\ mpc[m] = "started"
    /\ mpc' = [mpc EXCEPT ![m] = IF is_monitoring THEN "started" ELSE "start_set"]
    /\ UNCHANGED <<api_state, config, now, trader_state, pc, bl, sl, wrote, twin, an,
                   monitor, is_monitoring, event_receiver, channel, handler, sent, delivered>>

\* *self.is_monitoring.write().await = true;
PumpFunMonitor_start_set(m) ==
    /\ mpc[m] = "start_set"
    /\ is_monitoring' = TRUE
    /\ mpc' = [mpc EXCEPT ![m] = "start_ws"]
    /\ UNCHANGED <<api_state, config, now, trader_state, pc, bl, sl, wrote, twin, an,
                   monitor, event_receiver, channel, handler, sent, delivered>>

\* self.start_websocket_monitoring().await? : ws_url, connect and subscribe may
\* fail (the error is returned); otherwise the feed loop is spawned.
start_websocket_monitoring(m) ==
    /\ mpc[m] = "start_ws"
    /\ \E ok \in BOOLEAN :
          mpc' = [mpc EXCEPT ![m] = "started",
                             !.feed = IF ok /\ mpc.feed = "none" THEN "read" ELSE @]
    /\ UNCHANGED <<api_state, config, now, trader_state, pc, bl, sl, wrote, twin, an,
                   monitor, is_monitoring, event_receiver, channel, handler, sent, delivered>>

(* ------------------- pump_fun_monitor.rs the feed loop ----------------- *)
\* while let Some(message) = read.next().await
feed_next ==
    /\ mpc.feed = "read"
    /\ mpc' = [mpc EXCEPT !.feed = "check"]
    /\ UNCHANGED <<api_state, config, now, trader_state, pc, bl, sl, wrote, twin, an,
                   monitor, is_monitoring, event_receiver, channel, handler, sent, delivered>>

\* event_sender.send(token_event): the event is appended unless the receiving
\* end was dropped, and the call returns at once (the channel is unbounded).
Send(event) ==
    IF event_receiver = "Dropped"
       THEN UNCHANGED <<channel, sent>>
       ELSE /\ channel' = Append(channel, event)
            /\ sent' = Append(sent, event)

\* if !*is_monitoring.read().await { break }   match message { .. }
\* A text message with a create log becomes a new event with fresh keys.
feed_message ==
    /\ mpc.feed = "check"
    /\ IF ~is_monitoring
          THEN /\ mpc' = [mpc EXCEPT !.feed = "done"]
               /\ UNCHANGED <<channel, sent>>
          ELSE \E kind \in MessageKinds :
                  /\ kind = "create" => Len(sent) < MaxEvents
                  /\ mpc' = [mpc EXCEPT !.feed = IF kind \in {"close", "error"}
                                                    THEN "done" ELSE "read"]
                  /\ IF kind = "create"
                        THEN Send(Len(sent) + 1)
                        ELSE UNCHANGED <<channel, sent>>
    /\ UNCHANGED <<api_state, config, now, trader_state, pc, bl, sl, wrote, twin, an,
                   monitor, is_monitoring, event_receiver, handler, delivered>>

(* ------------------- pump_fun_monitor.rs the dispatch loop ------------- *)
\* The dispatch loop that waits for handler n before it takes event n+1.
dispatch_attached ==
    /\ mpc.dispatch = "recv"
    /\ channel # <<>>
    /\ \A n \in Events : handler[n] # "running"
    /\ channel' = Tail(channel)
    /\ delivered' = Append(delivered, Head(channel))
    /\ handler' = [handler EXCEPT ![Head(channel)] = "running"]
    /\ UNCHANGED <<api_state, config, now, trader_state, pc, bl, sl, wrote, twin, an,
                   monitor, is_monitoring, event_receiver, mpc, sent>>

\* The dispatch loop that takes the newest event of the channel.
dispatch_newest_first ==
    /\ mpc.dispatch = "recv"
    /\ channel # <<>>
    /\ channel' = SubSeq(channel, 1, Len(channel) - 1)
    /\ delivered' = Append(delivered, channel[Len(channel)])
    /\ handler' = [handler EXCEPT ![channel[Len(channel)]] = "running"]
    /\ UNCHANGED <<api_state, config, now, trader_state, pc, bl, sl, wrote, twin, an,
                   monitor, is_monitoring, event_receiver, mpc, sent>>

\* Some(event) = receiver.recv().await; callback(event): the callback of
\* lib.rs:54-62 spawns handle_new_token for the event and returns.
dispatch ==
    /\ mpc.dispatch = "recv"
    /\ channel # <<>>
    /\ channel' = Tail(channel)
    /\ delivered' = Append(delivered, Head(channel))
    /\ handler' = [handler EXCEPT ![Head(channel)] = "running"]
    /\ UNCHANGED <<api_state, config, now, trader_state, pc, bl, sl, wrote, twin, an,
                   monitor, is_monitoring, event_receiver, mpc, sent>>

\* recv() returns None: the channel is empty and every sender is gone.
dispatch_closed ==
    /\ mpc.dispatch = "recv"
    /\ channel = <<>>
    /\ ~MonitorAlive
    /\ ~FeedAlive
    /\ mpc' = [mpc EXCEPT !.dispatch = "done"]
    /\ UNCHANGED <<api_state, config, now, trader_state, pc, bl, sl, wrote, twin, an,
                   monitor, is_monitoring, event_receiver, channel, handler, sent, delivered>>

\* The spawned handle_new_token of an event returns (it need not).
handler_return(n) ==
    /\ handler[n] = "running"
    /\ handler' = [handler EXCEPT ![n] = "returned"]
    /\ UNCHANGED <<api_state, config, now, trader_state, pc, bl, sl, wrote, twin, an,
                   monitor, is_monitoring, event_receiver, channel, mpc, sent, delivered>>

(* ------------------- trader.rs Trader::status -------------------------- *)
StatusFrame ==
    UNCHANGED <<config, now, trader_state, pc, bl, sl, wrote, outer_state, consumer, tick>>

\* let positions_count = self.positions.read().await.len();
Trader_status ==
    /\ status_call.pc \in {"idle", "done"}
    /\ status_call' = [StatusLocals0 EXCEPT
           !.pc = "is_buying",
           !.positions_count = Cardinality({a \in Assets : positions[a] # NoPosition}),
           !.open_or_partial =
               Cardinality({a \in Assets : positions[a].status \in {"Open", "Partial"}})]
    /\ StatusFrame

\* let is_buying = *self.is_buying.read().await;
Trader_status_is_buying ==
    /\ status_call.pc = "is_buying"
    /\ status_call' = [status_call EXCEPT !.pc = "is_selling", !.is_buying = is_buying]
    /\ StatusFrame

\* let is_selling = *self.is_selling.read().await;
Trader_status_is_selling ==
    /\ status_call.pc = "is_selling"
    /\ status_call' = [status_call EXCEPT !.pc = "daily_trades", !.is_selling = is_selling]
    /\ StatusFrame

\* json!({ .., "active_positions": positions_count, "daily_trades": *self.daily_trades.read().await })
Trader_status_daily_trades ==
    /\ status_call.pc = "daily_trades"
    /\ status_call' = [status_call EXCEPT !.pc = "done", !.daily_trades = daily_trades]
    /\ StatusFrame

(* ------------------- lib.rs the handler task of an event --------------- *)
\* An analysis error that ends the dispatch loop with the handler.
handler_analysis_error_fatal(n) ==
    /\ handler[n] = "running"
    /\ handler' = [handler EXCEPT ![n] = "failed"]
    /\ mpc' = [mpc EXCEPT !.dispatch = "done"]
    /\ UNCHANGED <<api_state, config, now, trader_state, pc, bl, sl, wrote, twin, an,
                   monitor, is_monitoring, event_receiver, channel, sent, delivered>>

\* let analysis = analyze_token(..).await?;  the error returns from
\* handle_new_token and the spawned task logs it (lib.rs:58-60) and ends.
handler_analysis_error(n) ==
    /\ handler[n] = "running"
    /\ handler' = [handler EXCEPT ![n] = "failed"]
    /\ UNCHANGED <<api_state, config, now, trader_state, pc, bl, sl, wrote, twin, an,
                   monitor, is_monitoring, event_receiver, channel, mpc, sent, delivered>>

(* ------------------- pump_fun_monitor.rs a second on_new_token --------- *)
\* let mut receiver = self.event_receiver.write().await.take().unwrap();
\* take() leaves None behind: the caller that finds None panics in unwrap() and
\* no loop is spawned for its callback.  The monitor is a local of
\* PumpFunSniper::start until the sniper's own registration has returned.
on_new_token_second ==
    /\ consumer = "idle"
    /\ MonitorAlive
    /\ mpc.main # "on_new_token"
    /\ IF event_receiver = "Some"
          THEN /\ event_receiver' = "Taken"
               /\ mpc' = [mpc EXCEPT !.dispatch = "recv"]
               /\ consumer' = "registered"
          ELSE /\ consumer' = "panicked"
               /\ UNCHANGED <<event_receiver, mpc>>
    /\ UNCHANGED <<status_call, tick, config, now, trader_state, pc, bl, sl, wrote, twin, an,
                   monitor, is_monitoring, channel, handler, sent, delivered>>

(* ------------------- lib.rs PumpFunSniper::stop ------------------------ *)
\* if let Some(monitor) = self.monitor.write().await.take() { monitor.stop().await?; }
PumpFunSniper_stop(m) ==
    /\ mpc[m] \in {"constructed", "started"}
    /\ monitor' = "None"
    /\ mpc' = [mpc EXCEPT ![m] = IF monitor = "Some" THEN "monitor_stop" ELSE "trader_stop"]
    /\ UNCHANGED <<api_state, config, now, trader_state, pc, bl, sl, wrote, twin, an,
                   is_monitoring, event_receiver, channel, handler, sent, delivered>>

\* PumpFunMonitor::stop: if !*self.is_monitoring.read().await { return Ok(()) }
PumpFunMonitor_stop(m) ==
    /\ mpc[m] = "monitor_stop"
    /\ mpc' = [mpc EXCEPT ![m] = IF is_monitoring THEN "monitor_stop_set" ELSE "trader_stop"]
    /\ UNCHANGED <<api_state, config, now, trader_state, pc, bl, sl, wrote, twin, an,
                   monitor, is_monitoring, event_receiver, channel, handler, sent, delivered>>

\* *self.is_monitoring.write().await = false;
PumpFunMonitor_stop_set(m) ==
    /\ mpc[m] = "monitor_stop_set"
    /\ is_monitoring' = FALSE
    /\ mpc' = [mpc EXCEPT ![m] = "monitor_stop_close"]
    /\ UNCHANGED <<api_state, config, now, trader_state, pc, bl, sl, wrote, twin, an,
                   monitor, event_receiver, channel, handler, sent, delivered>>

\* if let Some(receiver) = self.event_receiver.write().await.take() { drop(receiver) }
PumpFunMonitor_stop_close(m) ==
    /\ mpc[m] = "monitor_stop_close"
    /\ event_receiver' = IF event_receiver = "Some" THEN "Dropped" ELSE event_receiver
    /\ channel' = IF event_receiver = "Some" THEN <<>> ELSE channel
    /\ mpc' = [mpc EXCEPT ![m] = "trader_stop"]
    /\ UNCHANGED <<api_state, config, now, trader_state, pc, bl, sl, wrote, twin, an,
                   monitor, is_monitoring, handler, sent, delivered>>

\* self.trader.stop().await?;  and PumpFunSniper::stop returns
PumpFunSniper_stop_trader(m) ==
    /\ mpc[m] = "trader_stop"
    /\ is_buying' = FALSE
    /\ is_selling' = FALSE
    /\ mpc' = [mpc EXCEPT ![m] = "stopped"]
    /\ UNCHANGED <<api_state, config, now, positions, last_buy_time, daily_trades, last_reset_date,
                   pc, bl, sl, wrote, twin, an,
                   monitor, is_monitoring, event_receiver, channel, handler, sent, delivered>>

\* main.rs: std::process::exit(0) after bot.stop() returned: every task ends.
process_exit(m) ==
    /\ mpc[m] = "stopped"
    /\ mpc' = [mpc EXCEPT ![m] = "exited"]
    /\ UNCHANGED <<api_state, config, now, trader_state, pc, bl, sl, wrote, twin, an,
                   monitor, is_monitoring, event_receiver, channel, handler, sent, delivered>>

(* ------------------- the simulated path as a function ------------------ *)
\* The fields of the trader as one value.
TraderState ==
    [positions |-> positions, is_buying |-> is_buying, is_selling |-> is_selling,
     last_buy_time |-> last_buy_time, daily_trades |-> daily_trades,
     last_reset_date |-> last_reset_date]

\* reset_daily_trades_if_needed on a trader value.
reset_daily_trades(st, today) ==
    IF today # st.last_reset_date
       THEN [st EXCEPT !.daily_trades = 0, !.last_reset_date = today]
       ELSE st

\* simulate_buy: update_buy_tracking, then create_position.
simulate_buy(st, a, price, now_read) ==
    [st EXCEPT !.last_buy_time = now_read,
               !.daily_trades = @ + 1,
               !.positions = [@ EXCEPT ![a] = NewPosition(price)]]

\* handle_new_token and execute_buy with simulation_mode set, run to its end by
\* one task alone: the filter, can_buy, simulate_buy.
simulated_handle_new_token(st, a, analysis, now_read) ==
    IF ~should_trade_token(analysis) THEN st
    ELSE IF CooldownActive(now_read, st.last_buy_time) THEN st
    ELSE LET r == reset_daily_trades(st, Date(now_read))
         IN  IF r.daily_trades >= DailyCap THEN r
             ELSE IF r.is_buying THEN r
             ELSE simulate_buy(r, a, analysis.price, now_read)

\* execute_sell with simulation_mode set, run to its end by one task alone:
\* the is_selling test, simulate_sell, update_position_after_sell.
simulate_sell(st, a, position, percentage) ==
    IF st.is_selling THEN st
    ELSE IF st.positions[a] = NoPosition THEN st
    ELSE [st EXCEPT !.positions = [@ EXCEPT ![a] =
             SettledPosition(@, AmountToSell(position.amount, percentage))]]

\* No task is inside a handler.
Quiescent == \A t \in DOMAIN pc : pc[t] = "idle"

\* The simulated trader is given the buy request that task t has just received.
twin_handle_new_token(t) ==
    /\ pc[t] = "filter"
    /\ twin.phase = "ready"
    /\ twin' = [phase |-> "applied",
                state |-> simulated_handle_new_token(twin.state, bl[t].asset, bl[t].analysis, now)]
    /\ UNCHANGED <<api_state, config, now, trader_state, pc, bl, sl, wrote, an,
                   monitor, is_monitoring, event_receiver, channel, mpc, handler, sent, delivered>>

\* The simulated trader is given the sell request that task s has just received:
\* the same asset and percentage, with a clone of its own ledger entry.
twin_execute_sell(s) ==
    /\ pc[s] = "sell_check"
    /\ twin.phase = "ready"
    /\ twin' = [phase |-> "applied",
                state |-> simulate_sell(twin.state, sl[s].asset,
                                        twin.state.positions[sl[s].asset], sl[s].percentage)]
    /\ UNCHANGED <<api_state, config, now, trader_state, pc, bl, sl, wrote, an,
                   monitor, is_monitoring, event_receiver, channel, mpc, handler, sent, delivered>>

\* Both traders are through with the request: the next one may come.
twin_next_request ==
    /\ Quiescent
    /\ twin.phase = "applied"
    /\ twin' = [twin EXCEPT !.phase = "ready"]
    /\ UNCHANGED <<api_state, config, now, trader_state, pc, bl, sl, wrote, an,
                   monitor, is_monitoring, event_receiver, channel, mpc, handler, sent, delivered>>

(* ------------------- trader.rs an exit tick over two positions --------- *)
\* execute_sell run to its end by one task alone, on a trader value: the
\* is_selling test, the simulated path, the flag, build (`?`), send, settlement.
execute_sell_alone(st, a, position, percentage, build_ok, send_ok) ==
    IF st.is_selling THEN [state |-> st, result |-> "Ok"]
    ELSE IF config.simulation_mode
       THEN [state |-> simulate_sell(st, a, position, percentage), result |-> "Ok"]
    ELSE IF ~build_ok
       THEN [state |-> [st EXCEPT !.is_selling = TRUE], result |-> "Err"]
    ELSE IF ~send_ok
       THEN [state |-> [st EXCEPT !.is_selling = TRUE], result |-> "Ok"]
    ELSE [state |-> [st EXCEPT !.is_selling = TRUE,
                               !.positions = [@ EXCEPT ![a] =
                                   SettledPosition(@, AmountToSell(position.amount, percentage))]],
          result |-> "Ok"]

TickFrame ==
    UNCHANGED <<config, now, trader_state, pc, bl, sl, wrote, outer_state, consumer, status_call>>

\* let positions: Vec<Position> = self.positions.read().await.values().cloned().collect();
\* (a HashMap gives its values in an order of its own)
tick_check_automated_sells ==
    /\ tick.pc \in {"idle", "done"}
    /\ \E first \in TickAssets :
          LET second == CHOOSE a \in TickAssets : a # first
          IN  tick' = [tick EXCEPT
                  !.pc = "loop",
                  !.queue = <<[asset |-> first, position |-> tick.state.positions[first]],
                              [asset |-> second, position |-> tick.state.positions[second]]>>,
                  !.visited = {},
                  !.result = "none"]
    /\ TickFrame

\* One round of the loop:
\*   self.update_position_price(&position).await?;
\*   if self.should_take_profit(&position) { self.execute_sell(&position, 100.0).await?; }
\*   else if self.should_stop_loss(&position) { self.execute_sell(&position, 100.0).await?; }
\* `?` returns the error of execute_sell from check_automated_sells.
tick_position(build_ok, send_ok) ==
    /\ tick.pc = "loop"
    /\ tick.queue # <<>>
    /\ \E new_price \in PriceMoves(Head(tick.queue).position.current_price) :
          LET a == Head(tick.queue).asset
              position == Head(tick.queue).position
              refreshed == [tick.state EXCEPT
                               !.positions = [@ EXCEPT ![a] = update_position_price(@, new_price)]]
              sold == IF should_take_profit(position) \/ should_stop_loss(position)
                         THEN execute_sell_alone(refreshed, a, position, Hundred, build_ok, send_ok)
                         ELSE [state |-> refreshed, result |-> "Ok"]
          IN  tick' = [tick EXCEPT !.state = sold.state,
                                   !.visited = @ \cup {a},
                                   !.queue = IF sold.result = "Err" THEN <<>> ELSE Tail(@),
                                   !.result = IF sold.result = "Err" THEN "Err" ELSE @,
                                   !.pc = IF sold.result = "Err" THEN "done" ELSE @]
    /\ TickFrame

\* Ok(()) after the last position
tick_return ==
    /\ tick.pc = "loop"
    /\ tick.queue = <<>>
    /\ tick' = [tick EXCEPT !.pc = "done", !.result = "Ok"]
    /\ TickFrame

(* ------------------- token_analyzer.rs --------------------------------- *)
\* calculate_metrics with the real token reserves left out of the divisor.
calculate_metrics_virtual_only(bonding_curve) ==
    LET virtual_sol == Rat(bonding_curve.virtual_sol_reserves, LamportsPerSol)
        real_sol == Rat(bonding_curve.real_sol_reserves, LamportsPerSol)
        price == RatDivInt(RatAdd(virtual_sol, real_sol),
                           Max(bonding_curve.virtual_token_reserves, 1))
    IN  [price |-> price,
         market_cap |-> RatMulInt(price, bonding_curve.token_total_supply),
         liquidity |-> RatAdd(virtual_sol, real_sol)]

\* price = (virtual_sol + real_sol) / (virtual_tokens - real_tokens).max(1.0)
\* market_cap = price * token_total_supply;  liquidity = virtual_sol + real_sol
calculate_metrics(bonding_curve) ==
    LET virtual_sol == Rat(bonding_curve.virtual_sol_reserves, LamportsPerSol)
        real_sol == Rat(bonding_curve.real_sol_reserves, LamportsPerSol)
        price == RatDivInt(RatAdd(virtual_sol, real_sol),
                           Max(bonding_curve.virtual_token_reserves
                                   - bonding_curve.real_token_reserves, 1))
    IN  [price |-> price,
         market_cap |-> RatMulInt(price, bonding_curve.token_total_supply),
         liquidity |-> RatAdd(virtual_sol, real_sol)]

\* let checks = SafetyChecks { has_lock: !bonding_curve.complete, mint_revoked: false, .. }
SafetyChecks(bonding_curve, token_info) ==
    [has_lock |-> ~bonding_curve.complete,
     mint_revoked |-> FALSE,
     is_honeypot |-> FALSE,
     has_social_links |-> token_info.has_social_links,
     creator_verified |-> FALSE,
     suspicious_creator |-> FALSE]

\* The score with the penalty of a suspicious creator charged to the others.
safety_score_suspicious_inverted(checks) ==
    Min(Max(FullScore
            - (IF ~checks.has_lock THEN PenaltyNoLock ELSE 0)
            - (IF ~checks.mint_revoked THEN PenaltyMintNotRevoked ELSE 0)
            - (IF checks.is_honeypot THEN PenaltyHoneypot ELSE 0)
            - (IF ~checks.has_social_links THEN PenaltyNoSocialLinks ELSE 0)
            - (IF ~checks.creator_verified THEN PenaltyCreatorUnverified ELSE 0)
            - (IF ~checks.suspicious_creator THEN PenaltySuspiciousCreator ELSE 0), 0), FullScore)

\* The score without its clamp.
safety_score_unclamped(checks) ==
    FullScore
    - (IF ~checks.has_lock THEN PenaltyNoLock ELSE 0)
    - (IF ~checks.mint_revoked THEN PenaltyMintNotRevoked ELSE 0)
    - (IF checks.is_honeypot THEN PenaltyHoneypot ELSE 0)
    - (IF ~checks.has_social_links THEN PenaltyNoSocialLinks ELSE 0)
    - (IF ~checks.creator_verified THEN PenaltyCreatorUnverified ELSE 0)
    - (IF checks.suspicious_creator THEN PenaltySuspiciousCreator ELSE 0)

\* let mut score = 100; if !checks.has_lock { score -= 35; } ..  score.max(0).min(100)
safety_score(checks) ==
    Min(Max(FullScore
            - (IF ~checks.has_lock THEN PenaltyNoLock ELSE 0)
            - (IF ~checks.mint_revoked THEN PenaltyMintNotRevoked ELSE 0)
            - (IF checks.is_honeypot THEN PenaltyHoneypot ELSE 0)
            - (IF ~checks.has_social_links THEN PenaltyNoSocialLinks ELSE 0)
            - (IF ~checks.creator_verified THEN PenaltyCreatorUnverified ELSE 0)
            - (IF checks.suspicious_creator THEN PenaltySuspiciousCreator ELSE 0), 0), FullScore)

\* The status with its first two arms swapped.
safety_status_swapped(score) ==
    IF score >= SafeScore THEN "Suspicious"
    ELSE IF score >= SuspiciousScore THEN "Safe"
    ELSE "Dangerous"

\* if score >= 70 { Safe } else if score >= 40 { Suspicious } else { Dangerous }
safety_status(score) ==
    IF score >= SafeScore THEN "Safe"
    ELSE IF score >= SuspiciousScore THEN "Suspicious"
    ELSE "Dangerous"

\* Ok(TokenSafety { status, score: score as u32, checks })
TokenSafety(checks) ==
    [status |-> safety_status(safety_score(checks)), score |-> safety_score(checks),
     checks |-> checks]

\* Safety checks whose lock test looks at the clock.
perform_safety_checks_by_clock(bonding_curve, token_info) ==
    TokenSafety([SafetyChecks(bonding_curve, token_info) EXCEPT !.has_lock = (now % 2 = 0)])

perform_safety_checks(bonding_curve, token_info) ==
    TokenSafety(SafetyChecks(bonding_curve, token_info))

\* The opportunity score whose liquidity reason comes before the market-cap reason.
calculate_opportunity_score_liquidity_first(metrics, safety, age_hours) ==
    LET safety_bonus == IF safety.status = "Safe" THEN <<[bonus |-> BonusSafe, reason |-> "passed safety checks"]>>
                        ELSE IF safety.status = "Suspicious"
                        THEN <<[bonus |-> BonusSuspicious, reason |-> "moderately safe"]>>
                        ELSE <<>>
        cap_bonus == IF RatPositive(metrics.market_cap) /\ RatBelow(metrics.market_cap, MarketCapLimit)
                        THEN <<[bonus |-> BonusMarketCap, reason |-> "market cap within range"]>>
                        ELSE <<>>
        liquidity_bonus == IF RatAtLeast(metrics.liquidity, LiquidityFloor)
                        THEN <<[bonus |-> BonusLiquidity, reason |-> "sufficient liquidity"]>>
                        ELSE <<>>
        age_bonus == IF age_hours < VeryNewHours
                        THEN <<[bonus |-> BonusVeryNew, reason |-> "very new token"]>>
                        ELSE IF age_hours < RecentHours
                        THEN <<[bonus |-> BonusRecent, reason |-> "recent token launch"]>>
                        ELSE <<>>
        applied == safety_bonus \o liquidity_bonus \o cap_bonus \o age_bonus
        Sum[i \in 0..Len(applied)] == IF i = 0 THEN 0 ELSE Sum[i - 1] + applied[i].bonus
    IN  [score |-> Min(Sum[Len(applied)], Hundred),
         reasons |-> [i \in 1..Len(applied) |-> applied[i].reason]]

\* let mut score = 0; let mut reasons = Vec::new();  each bonus: score += ..; reasons.push(..)
\* TokenOpportunities { score: score.min(100), reasons }
calculate_opportunity_score(metrics, safety, age_hours) ==
    LET safety_bonus == IF safety.status = "Safe" THEN <<[bonus |-> BonusSafe, reason |-> "passed safety checks"]>>
                        ELSE IF safety.status = "Suspicious"
                        THEN <<[bonus |-> BonusSuspicious, reason |-> "moderately safe"]>>
                        ELSE <<>>
        cap_bonus == IF RatPositive(metrics.market_cap) /\ RatBelow(metrics.market_cap, MarketCapLimit)
                        THEN <<[bonus |-> BonusMarketCap, reason |-> "market cap within range"]>>
                        ELSE <<>>
        liquidity_bonus == IF RatAtLeast(metrics.liquidity, LiquidityFloor)
                        THEN <<[bonus |-> BonusLiquidity, reason |-> "sufficient liquidity"]>>
                        ELSE <<>>
        age_bonus == IF age_hours < VeryNewHours
                        THEN <<[bonus |-> BonusVeryNew, reason |-> "very new token"]>>
                        ELSE IF age_hours < RecentHours
                        THEN <<[bonus |-> BonusRecent, reason |-> "recent token launch"]>>
                        ELSE <<>>
        applied == safety_bonus \o cap_bonus \o liquidity_bonus \o age_bonus
        Sum[i \in 0..Len(applied)] == IF i = 0 THEN 0 ELSE Sum[i - 1] + applied[i].bonus
    IN  [score |-> Min(Sum[Len(applied)], Hundred),
         reasons |-> [i \in 1..Len(applied) |-> applied[i].reason]]

\* (Utc::now() - token_info.created_at).num_hours(), a tick being a whole number of hours
age_hours_at(now_read, created_at) == (now_read - created_at) * (HoursPerDay \div DayLen)

AnalyzerFrame ==
    UNCHANGED <<api_state, config, now, trader_state, pc, bl, sl, wrote, twin,
                monitor, is_monitoring, event_receiver, channel, mpc, handler, sent, delivered>>

\* calculate_metrics applied to a bonding curve.
call_calculate_metrics(z) ==
    /\ \E bonding_curve \in BondingCurves :
          an' = [an EXCEPT ![z] = [AnalyzerLocals0 EXCEPT
                     !.call = "calculate_metrics",
                     !.bonding_curve = bonding_curve,
                     !.metrics = calculate_metrics(bonding_curve)]]
    /\ AnalyzerFrame

\* The scoring of perform_safety_checks applied to a SafetyChecks value.
call_safety_score(z) ==
    /\ \E checks \in AllChecks :
          an' = [an EXCEPT ![z] = [AnalyzerLocals0 EXCEPT
                     !.call = "safety_score",
                     !.safety = TokenSafety(checks)]]
    /\ AnalyzerFrame

\* calculate_opportunity_score applied to metrics, a safety status and a token age.
call_calculate_opportunity_score(z) ==
    /\ \E metrics \in MetricsValues, status \in Statuses, age_hours \in AgeHours :
          an' = [an EXCEPT ![z] = [AnalyzerLocals0 EXCEPT
                     !.call = "calculate_opportunity_score",
                     !.metrics = metrics,
                     !.safety = [NoSafety EXCEPT !.status = status],
                     !.age_hours = age_hours,
                     !.opportunities = calculate_opportunity_score(
                                           metrics, [NoSafety EXCEPT !.status = status], age_hours)]]
    /\ AnalyzerFrame

\* analyze_token: get_token_info and get_bonding_curve_info return what they decoded.
analyze_token_fetch(z) ==
    /\ an[z].call # "fetched"
    /\ \E bonding_curve \in FetchedCurves, social \in BOOLEAN :
          an' = [an EXCEPT ![z] = [AnalyzerLocals0 EXCEPT
                     !.call = "fetched",
                     !.token = [has_social_links |-> social, created_at |-> now],
                     !.bonding_curve = bonding_curve]]
    /\ AnalyzerFrame

\* analyze_token: calculate_metrics, perform_safety_checks, calculate_opportunity_score.
analyze_token(z) ==
    /\ an[z].call = "fetched"
    /\ an' = [an EXCEPT ![z] = [an[z] EXCEPT
                     !.call = "analyze_token",
                     !.metrics = calculate_metrics(an[z].bonding_curve),
                     !.safety = perform_safety_checks(an[z].bonding_curve, an[z].token),
                     !.age_hours = age_hours_at(now, an[z].token.created_at),
                     !.opportunities = calculate_opportunity_score(
                                           calculate_metrics(an[z].bonding_curve),
                                           perform_safety_checks(an[z].bonding_curve, an[z].token),
                                           age_hours_at(now, an[z].token.created_at))]]
    /\ AnalyzerFrame

SellStep(s) ==
    \/ execute_sell(s)
    \/ execute_sell_check(s)
    \/ execute_sell_set_is_selling(s)
    \/ execute_sell_build(s)
    \/ execute_sell_send(s)
    \/ update_position_after_sell(s)
    \/ update_position_after_sell_panic(s)

\* The steps of a buy that can be taken while the clock stands still.
BuyStepNoClock(t) ==
    \/ handle_new_token(t)
    \/ handle_new_token_analysis_error(t)
    \/ handle_new_token_filter(t)
    \/ can_buy_now(t)
    \/ can_buy_cooldown(t)
    \/ reset_daily_trades_if_needed(t)
    \/ can_buy_cap(t)
    \/ can_buy_in_flight(t)
    \/ execute_buy_balance(t)
    \/ execute_buy_balance_check(t)
    \/ execute_buy_balance_error(t)
    \/ execute_buy_set_is_buying(t)
    \/ execute_buy_build(t)
    \/ execute_buy_send(t)
    \/ update_buy_tracking_now(t)
    \/ update_buy_tracking_last(t)
    \/ update_buy_tracking_count(t)
    \/ create_position(t)

BuyStep(t) ==
    \/ handle_new_token(t)
    \/ handle_new_token_analysis_error(t)
    \/ handle_new_token_filter(t)
    \/ can_buy_now(t)
    \/ can_buy_cooldown(t)
    \/ can_buy_cooldown_panic(t)
    \/ reset_daily_trades_if_needed(t)
    \/ reset_daily_trades_count(t)
    \/ reset_daily_trades_key(t)
    \/ can_buy_cap(t)
    \/ can_buy_in_flight(t)
    \/ execute_buy_balance(t)
    \/ execute_buy_balance_check(t)
    \/ execute_buy_balance_error(t)
    \/ execute_buy_set_is_buying(t)
    \/ execute_buy_build(t)
    \/ execute_buy_send(t)
    \/ update_buy_tracking_now(t)
    \/ update_buy_tracking_last(t)
    \/ update_buy_tracking_count(t)
    \/ create_position(t)

(* ---------------------------- specifications --------------------------- *)
\* Concurrent event handlers, the clock and the shutdown path.
NextBuy ==
    \/ Tick
    \/ stop
    \/ \E t \in Buyers : BuyStep(t)

SpecBuy == Init /\ [][NextBuy]_vars

\* One event handler filling the ledger, concurrent sellers, the shutdown path.
NextSell ==
    \/ stop
    \/ BuyStepNoClock("b1")
    \/ \E s \in Sellers : SellStep(s)

SpecSell == Init /\ [][NextSell]_vars

\* Simulated buys with no cooldown while the clock stands still: the daily cap.
InitCap == InitWith(TRUE, 0, MaxTradesPerHour)

SimBuyStep(t) ==
    \/ handle_new_token(t)
    \/ handle_new_token_filter(t)
    \/ can_buy_now(t)
    \/ can_buy_cooldown(t)
    \/ reset_daily_trades_if_needed(t)
    \/ can_buy_cap(t)
    \/ can_buy_in_flight(t)
    \/ update_buy_tracking_now(t)
    \/ update_buy_tracking_last(t)
    \/ update_buy_tracking_count(t)
    \/ create_position(t)

NextCap == \E t \in Buyers : SimBuyStep(t)

SpecCap == InitCap /\ [][NextCap]_vars

\* One event handler at a time across a change of day, and the shutdown path.
\* (The underflow of can_buy needs a second handler, so it is not a step here.)
SeqBuyStep(t) ==
    \/ BuyStepNoClock(t)
    \/ reset_daily_trades_count(t)
    \/ reset_daily_trades_key(t)

NextDay ==
    \/ Tick
    \/ stop
    \/ SeqBuyStep("b1")

SpecDay == Init /\ [][NextDay]_vars

\* An exit tick: the loop of check_automated_sells and the execute_sell it calls.
\* (The underflow of a settlement needs a second seller, so it is not a step here.)
ExitStep(e) ==
    \/ check_automated_sells(e)
    \/ check_automated_sells_position(e)
    \/ execute_sell_check(e)
    \/ execute_sell_set_is_selling(e)
    \/ execute_sell_build(e)
    \/ execute_sell_send(e)
    \/ update_position_after_sell(e)

\* Exit thresholds as configured, or both at the entry price.
InitExit ==
    \E sim \in BOOLEAN, pct \in {<<TakeProfitPct, StopLossPct>>, <<0, 0>>} :
        InitTrader(sim, Cooldown, MaxTradesPerHour, pct[1], pct[2])

\* One event handler filling the ledger, the exit engine and the shutdown path.
NextExit ==
    \/ stop
    \/ BuyStepNoClock("b1")
    \/ ExitStep("e1")

SpecExit == InitExit /\ [][NextExit]_vars

\* The shutdown path of the sniper beside one event handler and the exit engine;
\* after std::process::exit no task takes a step.
MainStep(m) ==
    \/ PumpFunSniper_start(m)
    \/ on_new_token(m)
    \/ PumpFunSniper_start_store(m)
    \/ PumpFunSniper_stop(m)
    \/ PumpFunMonitor_stop(m)
    \/ PumpFunSniper_stop_trader(m)
    \/ process_exit(m)

NextStop ==
    \/ MainStep("main")
    \/ Running /\ BuyStepNoClock("b1")
    \/ Running /\ ExitStep("e1")

SpecStop == InitExit /\ [][NextStop]_vars

\* Requests one at a time (buys, sells, the clock between them), each given to the
\* trader and to a trader in simulation mode; no call of the gateway fails.
NextTwin ==
    \/ Quiescent /\ twin.phase = "ready" /\ Tick
    \/ Quiescent /\ twin.phase = "ready" /\ handle_new_token("b1")
    \/ twin_handle_new_token("b1")
    \/ twin.phase = "applied" /\ handle_new_token_filter("b1")
    \/ can_buy_now("b1")
    \/ can_buy_cooldown("b1")
    \/ reset_daily_trades_if_needed("b1")
    \/ reset_daily_trades_count("b1")
    \/ reset_daily_trades_key("b1")
    \/ can_buy_cap("b1")
    \/ can_buy_in_flight("b1")
    \/ execute_buy_balance("b1")
    \/ execute_buy_balance_check("b1")
    \/ execute_buy_set_is_buying("b1")
    \/ execute_buy_build("b1") /\ pc'["b1"] = "send_buy"
    \/ execute_buy_send("b1") /\ pc'["b1"] = "track_now"
    \/ update_buy_tracking_now("b1")
    \/ update_buy_tracking_last("b1")
    \/ update_buy_tracking_count("b1")
    \/ create_position("b1")
    \/ Quiescent /\ twin.phase = "ready" /\ execute_sell("s1")
    \/ twin_execute_sell("s1")
    \/ twin.phase = "applied" /\ execute_sell_check("s1")
    \/ execute_sell_set_is_selling("s1")
    \/ execute_sell_build("s1") /\ pc'["s1"] = "send_sell"
    \/ execute_sell_send("s1") /\ pc'["s1"] = "settle"
    \/ update_position_after_sell("s1")
    \/ twin_next_request

SpecTwin == Init /\ [][NextTwin]_vars

\* The functions of the analyzer, each applied to arguments of its own.
NextFunctions ==
    \/ call_calculate_metrics("z1")
    \/ call_safety_score("z1")
    \/ call_calculate_opportunity_score("z1")

SpecFunctions == Init /\ [][NextFunctions]_vars

\* The monitor with its feed loop, the dispatch loop and the spawned handlers,
\* from construction to the exit of the process.
NextFeed ==
    \/ MainStep("main")
    \/ PumpFunMonitor_start("main")
    \/ PumpFunMonitor_start_set("main")
    \/ start_websocket_monitoring("main")
    \/ PumpFunMonitor_stop_set("main")
    \/ PumpFunMonitor_stop_close("main")
    \/ Running /\ feed_next
    \/ Running /\ feed_message
    \/ Running /\ dispatch
    \/ Running /\ dispatch_closed
    \/ \E n \in Events : Running /\ handler_return(n)

SpecFeed == Init /\ [][NextFeed]_vars

\* The runtime polls a task that is ready: the dispatch loop, whose recv()
\* has an event to return, eventually runs.  Nothing makes a handler return.
SpecFeedFair == SpecFeed /\ WF_vars(Running /\ dispatch)

\* The monitor, its loops and a second consumer that registers a callback.
NextRegister ==
    \/ NextFeed
    \/ on_new_token_second

SpecRegister == Init /\ [][NextRegister]_vars

\* A handler whose analysis succeeded goes on to the filter and the buy; here it
\* does so, as task b1, once every event of the feed has been handed over.
HandlerBuys ==
    /\ mpc.main = "started"
    /\ mpc.feed = "done"
    /\ channel = <<>>
    /\ \E n \in Events : handler[n] = "running"

\* The monitor and its loops, handlers whose analysis may fail, and the buy
\* of a handler whose analysis succeeded.
NextSkip ==
    \/ NextFeed
    \/ \E n \in Events : Running /\ handler_analysis_error(n)
    \/ HandlerBuys /\ BuyStepNoClock("b1")

SpecSkip == Init /\ [][NextSkip]_vars /\ WF_vars(Running /\ dispatch)

\* Simulated buys and sells of one handler and one seller beside status queries.
NextStatus ==
    \/ SimBuyStep("b1")
    \/ execute_sell("s1")
    \/ execute_sell_check("s1")
    \/ update_position_after_sell("s1")
    \/ Trader_status
    \/ Trader_status_is_buying
    \/ Trader_status_is_selling
    \/ Trader_status_daily_trades

SpecStatus == InitCap /\ [][NextStatus]_vars

\* Exit ticks over two positions, with a gateway that may fail.
NextTick ==
    \/ tick_check_automated_sells
    \/ \E build_ok, send_ok \in BOOLEAN : tick_position(build_ok, send_ok)
    \/ tick_return

SpecTick == InitExit /\ [][NextTick]_vars

\* Exit ticks that keep running in real mode over a gateway that always
\* succeeds: the engine is a timer-driven task, so a step it can take is taken.
NextTickOk ==
    \/ tick_check_automated_sells
    \/ tick_position(TRUE, TRUE)
    \/ tick_return

SpecTickFair ==
    /\ InitWith(FALSE, Cooldown, MaxTradesPerHour)
    /\ [][NextTickOk]_vars
    /\ WF_vars(NextTickOk)

\* Two tasks score combinations of checks.
NextScores == \E z \in Analyzers : call_safety_score(z)

SpecScores == Init /\ [][NextScores]_vars

\* Evaluations of analyze_token by two tasks while the clock runs.
NextAnalyze ==
    \/ Tick
    \/ \E z \in Analyzers : analyze_token_fetch(z) \/ analyze_token(z)

SpecAnalyze == Init /\ [][NextAnalyze]_vars

(* ============================== claims ================================= *)
\* Task t takes a step of its handler.
Steps(t) == pc'[t] # pc[t]

\* A real-mode buy call between can_buy returning true and the end of its
\* gateway call (build + send).
AdmittedBuyPcs == {"balance", "balance_check", "set_is_buying", "build_buy", "send_buy"}

(* ------------------------------- C1 ------------------------------------ *)
\* C1: in real mode, under concurrent event handlers, at most one buy is
\* between its admission (can_buy returned true) and the completion of its
\* gateway call at any time.
C1_AtMostOneBuyInFlight ==
    ~config.simulation_mode =>
        Cardinality({t \in Buyers : pc[t] \in AdmittedBuyPcs}) <= 1

(* ------------------------------- C2 ------------------------------------ *)
\* C2: every execute_buy call that set is_buying to true has cleared it by
\* the time the call returns, whatever the outcome (success, build failure,
\* failed send), so a later buy can be admitted without stop().
C2_BuyFlagClearedAtReturn ==
    [][\A t \in Buyers :
          (Steps(t) /\ pc'[t] = "idle" /\ "is_buying" \in wrote[t]) => ~is_buying']_vars

(* ------------------------------- C3 ------------------------------------ *)
\* C3 as stated: a buy call whose admission finds is_buying true is rejected,
\* makes no gateway call and creates no position, and the call has changed
\* neither last_buy_time nor daily_trades.
C3_RejectedInFlightChangesNothing ==
    [][\A t \in Buyers :
          (Steps(t) /\ pc[t] = "can_buy_in_flight" /\ is_buying) =>
              /\ pc'[t] = "idle"
              /\ UNCHANGED <<positions, last_buy_time, daily_trades>>
              /\ wrote[t] \cap {"last_buy_time", "daily_inc", "daily_cleared"} = {}]_vars

\* C3: a buy call whose admission finds is_buying true is rejected: it makes
\* no gateway call, creates no position, never writes last_buy_time and never
\* increments daily_trades; the only shared write it can have made is the
\* daily reset (daily_trades := 0 on a date change) that precedes the cap test.
C3_RejectedInFlight ==
    [][\A t \in Buyers :
          (Steps(t) /\ pc[t] = "can_buy_in_flight" /\ is_buying) =>
              /\ pc'[t] = "idle"
              /\ UNCHANGED <<positions, last_buy_time, daily_trades>>
              /\ wrote[t] \subseteq {"daily_reset", "daily_cleared"}]_vars

\* A call is at the in-flight test with the flag raised, having cleared a
\* non-zero count on its way.
C3_Witness ==
    \E t \in Buyers :
        pc[t] = "can_buy_in_flight" /\ is_buying /\ "daily_cleared" \in wrote[t]

(* ------------------------------- C4 ------------------------------------ *)
\* C4: in real mode, under concurrent execute_sell calls, at most one sell has
\* an outstanding gateway call (build + send) at any time.
C4_AtMostOneSellOutstanding ==
    ~config.simulation_mode =>
        Cardinality({s \in Sellers : pc[s] \in {"build_sell", "send_sell"}}) <= 1

(* ------------------------------- C5 ------------------------------------ *)
\* C5: when a real-mode execute_sell call that reached the gateway returns,
\* is_selling is false, whatever the outcome (success, build failure, failed
\* send).
C5_SellFlagClearedAtReturn ==
    [][\A s \in Sellers :
          (Steps(s) /\ pc[s] \in {"build_sell", "send_sell", "settle"} /\ pc'[s] = "idle"
                    /\ ~config.simulation_mode) => ~is_selling']_vars

(* ------------------------------- C6 ------------------------------------ *)
\* C6: no two successful buys are ever less than trading_cooldown_ms apart:
\* a buy that records its time does so at least a cooldown after the time
\* recorded by the previous successful buy (simulation or real mode,
\* sequential or concurrent handlers).
C6_BuysACooldownApart ==
    [][\A t \in Buyers :
          (Steps(t) /\ pc[t] = "track_last" /\ last_buy_time > 0) =>
              bl[t].now - last_buy_time >= config.trading_cooldown_ms]_vars

(* ------------------------------- C7 ------------------------------------ *)
\* C7: the number of buys executed within one UTC day never exceeds
\* max_trades_per_hour * 24, under any interleaving of concurrent handlers.
\* (The clock stands still in SpecCap, so daily_trades counts the day's buys.)
C7_DailyCapNeverExceeded == daily_trades <= DailyCap

(* ------------------------------- C8 ------------------------------------ *)
\* C8: a buy admission evaluated on a date different from the stored key sets
\* daily_trades to 0 and then the key to that date, both before the daily-cap
\* comparison, and the comparison is reached no other way; so a trade admitted
\* after a change of day sees a count of 0 at the cap test and leaves it at 1.
C8_ResetBeforeCapTest ==
    /\ [](\A t \in Buyers :
             "daily_reset" \in wrote[t] =>
                 daily_trades = IF "daily_inc" \in wrote[t] THEN 1 ELSE 0)
    /\ [][\A t \in Buyers : Steps(t) =>
             /\ pc[t] = "reset_check" =>
                    IF Date(now) # last_reset_date
                       THEN pc'[t] = "reset_count" /\ bl'[t].today = Date(now)
                       ELSE pc'[t] = "can_buy_cap"
             /\ pc[t] = "reset_count" => (daily_trades' = 0 /\ pc'[t] = "reset_key")
             /\ pc[t] = "reset_key" =>
                    (last_reset_date' = bl[t].today /\ pc'[t] = "can_buy_cap")
             /\ pc'[t] = "can_buy_cap" => pc[t] \in {"reset_check", "reset_key"}]_vars

\* The second day's trade, after the first day's, is about to enter the ledger:
\* the key is the new day and the count is 1.
C8_Witness ==
    \E t \in Buyers :
        /\ pc[t] = "create_position"
        /\ "daily_reset" \in wrote[t]
        /\ positions[bl[t].asset].status = "Open"
        /\ last_reset_date = Date(StartTime) + 1
        /\ daily_trades = 1

(* ------------------------------- C9 ------------------------------------ *)
\* The three conditions on the analysis: safety score, market-cap range, liquidity.
PassesFilters(a) ==
    /\ a.score >= SafetyThreshold
    /\ a.market_cap >= config.min_market_cap
    /\ a.market_cap <= config.max_market_cap
    /\ a.liquidity >= config.min_liquidity

\* A handler that returns from one of these places has not bought.
BeforeBuyPcs == {"filter", "can_buy_now", "can_buy_cooldown", "reset_check", "reset_count",
                 "reset_key", "can_buy_cap", "can_buy_in_flight", "balance", "balance_check"}

C10_FailuresChangeNeither ==
    [][\A t \in Buyers :
          (Steps(t) /\ pc'[t] = "idle" /\ pc[t] # "create_position") =>
              wrote[t] \cap {"last_buy_time", "daily_inc", "daily_cleared"} = {}]_vars

\* C10: last_buy_time is written only by a successful buy, with the time it
\* reads then, and daily_trades is incremented only by a successful buy, by
\* exactly 1; a call that ends without a successful buy has written neither.
\* The one other change of daily_trades is the reset to 0 that any admission
\* makes on a change of date.
C10_TrackingOnlyOnSuccess ==
    [][/\ (\A t \in Buyers : ~Steps(t)) => UNCHANGED <<last_buy_time, daily_trades>>
       /\ \A t \in Buyers : Steps(t) =>
          /\ pc'[t] = "track_now" =>
                 /\ pc[t] \in {"can_buy_in_flight", "send_buy"}
                 /\ config.simulation_mode \/ "sent" \in wrote'[t]
          /\ pc[t] = "track_now" => (pc'[t] = "track_last" /\ bl'[t].now = now)
          /\ pc[t] = "track_last" => (pc'[t] = "track_count" /\ last_buy_time' = bl[t].now)
          /\ pc[t] = "track_count" =>
                 (pc'[t] = "create_position" /\ daily_trades' = daily_trades + 1)
          /\ last_buy_time' # last_buy_time => pc[t] = "track_last"
          /\ daily_trades' # daily_trades =>
                 \/ pc[t] = "track_count"
                 \/ pc[t] = "reset_count" /\ daily_trades' = 0
          /\ (pc'[t] = "idle" /\ pc[t] # "create_position") =>
                 wrote[t] \cap {"last_buy_time", "daily_inc"} = {}
          /\ pc[t] = "create_position" =>
                 {"last_buy_time", "daily_inc"} \subseteq wrote[t]]_vars

\* A real-mode buy whose send succeeded has recorded its time and its count.
C10_Witness ==
    \E t \in Buyers :
        /\ pc[t] = "create_position"
        /\ {"sent", "last_buy_time", "daily_inc"} \subseteq wrote[t]
        /\ daily_trades >= 1
        /\ last_buy_time >= StartTime

(* ------------------------------- C11 ----------------------------------- *)
\* C11: the ledger changes (a Position is inserted) only in the last step of a
\* buy whose gateway send returned success, or of a simulated buy in simulation
\* mode; every other step of a buy call, in particular every return after a
\* rejected admission, an insufficient balance, a build failure or a failed
\* send, leaves the ledger unchanged.
C11_PositionOnlyAfterSuccessfulBuy ==
    [][/\ (\A t \in Buyers : ~Steps(t)) => UNCHANGED positions
       /\ \A t \in Buyers : Steps(t) =>
             /\ pc[t] # "create_position" => UNCHANGED positions
             /\ pc[t] = "create_position" =>
                    /\ config.simulation_mode \/ "sent" \in wrote[t]
                    /\ positions'[bl[t].asset].status = "Open"]_vars

\* A real-mode buy whose send succeeded is about to insert the first Position.
C11_Witness ==
    \E t \in Buyers :
        /\ pc[t] = "create_position"
        /\ "sent" \in wrote[t]
        /\ positions[bl[t].asset] = NoPosition

C13_FullSettlementCloses ==
    [][\A s \in Sellers :
          (Steps(s) /\ pc[s] = "settle"
                    /\ sl[s].amount_to_sell = positions[sl[s].asset].amount) =>
              /\ positions'[sl[s].asset].amount = 0
              /\ positions'[sl[s].asset].status = "Closed"]_vars

\* A sell of the whole of an Open position is about to be settled.
C13_Witness ==
    \E s \in Sellers :
        /\ pc[s] = "settle"
        /\ positions[sl[s].asset].status = "Open"
        /\ positions[sl[s].asset].amount > 0
        /\ sl[s].amount_to_sell = positions[sl[s].asset].amount

(* ------------------------------- C14 ----------------------------------- *)
\* C14: a sell settlement whose amount_sold exceeds the amount held leaves the
\* position unchanged (it fails instead of going below 0 or wrapping), also
\* when two sells were computed from the same stale snapshot.
C14_OverdrawLeavesPositionUnchanged ==
    [][\A s \in Sellers :
          (Steps(s) /\ pc[s] = "settle"
                    /\ sl[s].amount_to_sell > positions[sl[s].asset].amount) =>
              UNCHANGED positions]_vars

(* ------------------------------- C15 ----------------------------------- *)
\* The insert of a new Position by a buy.
InsertsPosition(a) ==
    \E t \in Buyers : Steps(t) /\ pc[t] = "create_position" /\ bl[t].asset = a

\* C15: the status of a ledger entry changes only Open -> Partial,
\* Partial -> Closed or Open -> Closed; a Closed entry never becomes Open or
\* Partial again and a Partial one never becomes Open again (the insert of a
\* new Position by a later buy counts as a new entry).
C15_StatusOnlyMovesForward ==
    [][\A a \in Assets :
          \/ positions'[a].status = positions[a].status
          \/ InsertsPosition(a)
          \/ <<positions[a].status, positions'[a].status>> \in
                 {<<"Open", "Partial">>, <<"Partial", "Closed">>, <<"Open", "Closed">>}]_vars

(* ------------------------------- C16 ----------------------------------- *)
\* C16: in every reachable ledger state each position has
\* pnl = (current_price - entry_price) * amount and
\* pnl_percentage = (current_price - entry_price) / entry_price * 100,
\* also right after a sell settlement has reduced the amount.
C16_PnlMatchesPriceAndAmount ==
    \A a \in Assets :
        positions[a] # NoPosition =>
            /\ positions[a].pnl =
                   (positions[a].current_price - positions[a].entry_price) * positions[a].amount
            /\ positions[a].pnl_percentage =
                   ((positions[a].current_price - positions[a].entry_price) * Hundred)
                       \div positions[a].entry_price

(* ------------------------------- C17 ----------------------------------- *)
\* C17: in an exit tick the exit predicates of a position are evaluated
\* against the price refreshed in that tick: when the refreshed price is at
\* or above take_profit_price a 100% sell is issued in that tick, and a sell
\* is issued only if a predicate holds for the refreshed price.
C17_ExitUsesRefreshedPrice ==
    [][\A e \in Engines :
          (Steps(e) /\ pc[e] = "refresh") =>
              LET p == positions'[sl[e].asset] IN
              /\ p.current_price >= p.take_profit_price =>
                     (pc'[e] = "sell_check" /\ sl'[e].percentage = Hundred)
              /\ pc'[e] = "sell_check" =>
                     \/ p.current_price >= p.take_profit_price
                     \/ p.current_price <= p.stop_loss_price]_vars

(* ------------------------------- C18 ----------------------------------- *)
\* C18: an exit tick enumerates only Open and Partial positions: the engine
\* never holds a Closed position to refresh its price or to route it to a sell.
C18_OnlyLivePositionsEnumerated ==
    \A e \in Engines :
        pc[e] # "idle" => sl[e].position.status \in {"Open", "Partial"}

(* ------------------------------- C19 ----------------------------------- *)
\* C19: for a position in a tick, with the price the engine holds for it:
\* if current_price >= take_profit_price one sell is issued, for take-profit,
\* whether or not the stop-loss predicate holds too; otherwise a sell is
\* issued if and only if current_price <= stop_loss_price, for stop-loss;
\* every such sell asks for 100% of the position's amount, and the tick issues
\* no other sell for the position.
C19_TakeProfitBeforeStopLoss ==
    [][\A e \in Engines :
          /\ (Steps(e) /\ pc'[e] = "sell_check") => pc[e] = "refresh"
          /\ (Steps(e) /\ pc'[e] = "refresh") => pc[e] = "idle"
          /\ (Steps(e) /\ pc[e] = "sell_check" /\ ~is_selling) =>
                 sl'[e].amount_to_sell = sl[e].position.amount
          /\ (Steps(e) /\ pc[e] = "refresh") =>
                 LET p == sl[e].position IN
                 IF p.current_price >= p.take_profit_price
                    THEN /\ pc'[e] = "sell_check"
                         /\ sl'[e].call_site = "take_profit"
                         /\ sl'[e].percentage = Hundred
                    ELSE IF p.current_price <= p.stop_loss_price
                    THEN /\ pc'[e] = "sell_check"
                         /\ sl'[e].call_site = "stop_loss"
                         /\ sl'[e].percentage = Hundred
                    ELSE pc'[e] = "idle"]_vars

\* Both predicates hold for a position and its sell was issued for take-profit.
C19_Witness ==
    \E e \in Engines :
        /\ pc[e] = "sell_check"
        /\ sl[e].call_site = "take_profit"
        /\ sl[e].position.current_price <= sl[e].position.stop_loss_price
        /\ sl[e].percentage = Hundred

(* ------------------------------- C20 ----------------------------------- *)
\* C20: exit triggers are level-based: a sell of the engine that is rejected
\* because is_selling is set leaves the ledger unchanged and ends the call,
\* and on a later tick in which an exit predicate holds for the position (for
\* the price the engine holds for it) the position is routed to sell admission
\* again, although its last sell was rejected.
C20_RejectedExitRoutedAgain ==
    [][\A e \in Engines :
          /\ (Steps(e) /\ pc[e] = "sell_check" /\ is_selling) =>
                 (UNCHANGED positions /\ pc'[e] = "idle" /\ "rejected" \in wrote'[e])
          /\ (Steps(e) /\ pc[e] = "refresh" /\ "rejected" \in wrote[e]) =>
                 LET p == sl[e].position IN
                 (p.current_price >= p.take_profit_price \/ p.current_price <= p.stop_loss_price)
                     => (pc'[e] = "sell_check" /\ sl'[e].percentage = Hundred)]_vars

\* The engine, whose last sell was rejected, has routed the position to sell
\* admission again while is_selling is still set.
C20_Witness ==
    \E e \in Engines :
        /\ pc[e] = "sell_check"
        /\ "rejected" \in wrote[e]
        /\ is_selling
        /\ positions[sl[e].asset].status \in {"Open", "Partial"}

(* ------------------------------- C21 ----------------------------------- *)
\* C21: once PumpFunSniper::stop (and with it Trader::stop) has returned, no
\* buy and no sell is admitted any more: no call of execute_buy passes can_buy
\* and goes on to the gateway or to the ledger, and no call of execute_sell
\* passes the is_selling test.
C21_NoAdmissionAfterShutdown ==
    [][mpc.main \in {"stopped", "exited"} =>
          /\ \A t \in Buyers :
                ~(pc[t] = "can_buy_in_flight" /\ pc'[t] \in {"track_now", "balance"})
          /\ \A e \in Sellers \cup Engines :
                ~(pc[e] = "sell_check" /\ pc'[e] \in {"settle", "set_is_selling"})]_vars

(* ------------------------------- C22 ----------------------------------- *)
\* C22: when a request has run to its end in real mode with no gateway call
\* failing, last_buy_time, daily_trades, is_buying, is_selling, last_reset_date
\* and the ledger equal those of a trader in simulation mode that was given the
\* same requests at the same times.
C22_SimulationMatchesReal ==
    (~config.simulation_mode /\ Quiescent /\ twin.phase = "applied")
        => TraderState = twin.state

\* The function of the simulated path agrees with the steps of the simulated path.
TwinFollowsSimulation ==
    (config.simulation_mode /\ Quiescent /\ twin.phase = "applied")
        => TraderState = twin.state

(* ------------------------------- C23 ----------------------------------- *)
\* The position of a status in the order Dangerous < Suspicious < Safe.
StatusRank(status) == IF status = "Safe" THEN 2 ELSE IF status = "Suspicious" THEN 1 ELSE 0

\* C23: for every safety assessment produced, score >= 70 gives Safe,
\* 40 <= score < 70 gives Suspicious and score < 40 gives Dangerous; two
\* assessments with the same score have the same status, and a higher score
\* never has a lower status.
C23_StatusFollowsScore ==
    /\ \A z \in Analyzers :
          an[z].call = "safety_score" =>
              /\ an[z].safety.score >= 70 => an[z].safety.status = "Safe"
              /\ (an[z].safety.score >= 40 /\ an[z].safety.score < 70)
                     => an[z].safety.status = "Suspicious"
              /\ an[z].safety.score < 40 => an[z].safety.status = "Dangerous"
    /\ \A y, z \in Analyzers :
          (an[y].call = "safety_score" /\ an[z].call = "safety_score"
             /\ an[y].safety.score <= an[z].safety.score)
              => StatusRank(an[y].safety.status) <= StatusRank(an[z].safety.status)

\* Two assessments from different checks with the same score, and a third status elsewhere.
C23_Witness ==
    /\ an["z1"].call = "safety_score"
    /\ an["z2"].call = "safety_score"
    /\ an["z1"].safety.checks # an["z2"].safety.checks
    /\ an["z1"].safety.score = an["z2"].safety.score
    /\ an["z1"].safety.status = "Suspicious"

(* ------------------------------- C24 ----------------------------------- *)
\* 100 minus the penalties of the failed checks, before the clamp.
PenaltySum(checks) ==
    (IF checks.has_lock THEN 0 ELSE 35) + (IF checks.mint_revoked THEN 0 ELSE 40)
    + (IF checks.is_honeypot THEN 60 ELSE 0) + (IF checks.has_social_links THEN 0 ELSE 10)
    + (IF checks.creator_verified THEN 0 ELSE 10) + (IF checks.suspicious_creator THEN 30 ELSE 0)

\* C24: for every combination of the six checks the score is 100 minus the sum
\* of the penalties of the failed checks, or 0 when that difference is negative,
\* and so lies in 0..100.
C24_ScoreIsClampedPenaltySum ==
    \A z \in Analyzers :
        an[z].call = "safety_score" =>
            /\ an[z].safety.score \in 0..100
            /\ an[z].safety.score =
                   (IF PenaltySum(an[z].safety.checks) > 100
                       THEN 0 ELSE 100 - PenaltySum(an[z].safety.checks))

\* Every check failed: the penalties add up to 185 and the score is 0.
C24_Witness ==
    /\ an["z1"].call = "safety_score"
    /\ PenaltySum(an["z1"].safety.checks) = 185
    /\ an["z1"].safety.score = 0

(* ------------------------------- C25 ----------------------------------- *)
\* Every check false except has_social_links.
ScenarioB ==
    [has_lock |-> FALSE, mint_revoked |-> FALSE, is_honeypot |-> FALSE,
     has_social_links |-> TRUE, creator_verified |-> FALSE, suspicious_creator |-> FALSE]

\* should_trade_token rejects a score whatever the metrics are.
RejectedForSafety(score) ==
    /\ score < SafetyThreshold
    /\ \A mc \in MarketCapValues, lq \in LiquidityValues :
          ~should_trade_token([score |-> score, market_cap |-> mc, liquidity |-> lq,
                               price |-> EntryPrice])

\* C25 as stated: with every check false except has_social_links the score is 0,
\* the status is Dangerous and the filter rejects the asset for its score.
C25_ScenarioScoresZero ==
    \A z \in Analyzers :
        (an[z].call = "safety_score" /\ an[z].safety.checks = ScenarioB) =>
            /\ an[z].safety.score = 0
            /\ an[z].safety.status = "Dangerous"
            /\ RejectedForSafety(an[z].safety.score)

\* C25 amended: with every check false except has_social_links the score is 15
\* (100 - 35 - 40 - 10: suspicious_creator = false carries no penalty), the
\* status is Dangerous and the filter rejects the asset for its score.
C25_ScenarioScoresFifteen ==
    \A z \in Analyzers :
        (an[z].call = "safety_score" /\ an[z].safety.checks = ScenarioB) =>
            /\ an[z].safety.score = 15
            /\ an[z].safety.status = "Dangerous"
            /\ RejectedForSafety(an[z].safety.score)

\* The scenario has been scored.
C25_Witness ==
    /\ an["z1"].call = "safety_score"
    /\ an["z1"].safety.checks = ScenarioB
    /\ an["z1"].safety.status = "Dangerous"

(* ------------------------------- C26 ----------------------------------- *)
\* The bonuses that apply to the arguments of a call, in the order of the code.
AppliedBonuses(metrics, status, age_hours) ==
    (IF status = "Safe" THEN <<30>> ELSE IF status = "Suspicious" THEN <<10>> ELSE <<>>)
    \o (IF metrics.market_cap.num > 0 /\ metrics.market_cap.num < 10000 * metrics.market_cap.den
           THEN <<20>> ELSE <<>>)
    \o (IF metrics.liquidity.num >= 5 * metrics.liquidity.den THEN <<15>> ELSE <<>>)
    \o (IF age_hours < 1 THEN <<25>> ELSE IF age_hours < 6 THEN <<15>> ELSE <<>>)

AppliedReasons(metrics, status, age_hours) ==
    (IF status = "Safe" THEN <<"passed safety checks">>
        ELSE IF status = "Suspicious" THEN <<"moderately safe">> ELSE <<>>)
    \o (IF metrics.market_cap.num > 0 /\ metrics.market_cap.num < 10000 * metrics.market_cap.den
           THEN <<"market cap within range">> ELSE <<>>)
    \o (IF metrics.liquidity.num >= 5 * metrics.liquidity.den
           THEN <<"sufficient liquidity">> ELSE <<>>)
    \o (IF age_hours < 1 THEN <<"very new token">>
        ELSE IF age_hours < 6 THEN <<"recent token launch">> ELSE <<>>)

RECURSIVE SeqSum(_)
SeqSum(seq) == IF seq = <<>> THEN 0 ELSE Head(seq) + SeqSum(Tail(seq))

\* C26: the opportunity score is the sum of the applied bonuses (safety 30 or
\* 10, market cap 20, liquidity 15, freshness 25 or 15), at most 100, so it
\* lies in 0..100; the reasons are one per applied bonus in the order safety,
\* market cap, liquidity, freshness.
C26_OpportunityScoreIsBonusSum ==
    \A z \in Analyzers :
        an[z].call = "calculate_opportunity_score" =>
            LET bonuses == AppliedBonuses(an[z].metrics, an[z].safety.status, an[z].age_hours)
            IN  /\ an[z].opportunities.score \in 0..100
                /\ an[z].opportunities.score =
                       (IF SeqSum(bonuses) > 100 THEN 100 ELSE SeqSum(bonuses))
                /\ Len(an[z].opportunities.reasons) = Len(bonuses)
                /\ an[z].opportunities.reasons =
                       AppliedReasons(an[z].metrics, an[z].safety.status, an[z].age_hours)

\* All four bonuses applied: score 90 and four reasons.
C26_Witness ==
    /\ an["z1"].call = "calculate_opportunity_score"
    /\ an["z1"].opportunities.score = 90
    /\ Len(an["z1"].opportunities.reasons) = 4

(* ------------------------------- C27 ----------------------------------- *)
\* virtual_quote = 1.0, virtual_base = 1_000_000_000, real reserves 0, total_supply = 1_000_000_000
ScenarioA ==
    [virtual_sol_reserves |-> LamportsPerSol, virtual_token_reserves |-> 1000000000,
     real_sol_reserves |-> 0, real_token_reserves |-> 0,
     token_total_supply |-> 1000000000, complete |-> FALSE]

\* C27: price times max(1, virtual_base - real_base) is virtual_quote +
\* real_quote, with a divisor of at least 1 also when real_base >= virtual_base;
\* market_cap = price * total_supply; liquidity = virtual_quote + real_quote;
\* the scenario gives price 1e-9, market_cap 1 and liquidity 1.
C27_MetricsFromCurve ==
    \A z \in Analyzers :
        an[z].call = "calculate_metrics" =>
            LET bc == an[z].bonding_curve
                m == an[z].metrics
                divisor == IF bc.virtual_token_reserves - bc.real_token_reserves >= 1
                              THEN bc.virtual_token_reserves - bc.real_token_reserves ELSE 1
            IN  /\ m.price.den > 0
                /\ RatMulInt(m.price, divisor) = m.liquidity
                /\ m.market_cap = RatMulInt(m.price, bc.token_total_supply)
                /\ m.liquidity = Rat(bc.virtual_sol_reserves + bc.real_sol_reserves, LamportsPerSol)
                /\ bc = ScenarioA =>
                       /\ m.price = [num |-> 1, den |-> 1000000000]
                       /\ m.market_cap = [num |-> 1, den |-> 1]
                       /\ m.liquidity = [num |-> 1, den |-> 1]

\* A curve whose real token reserves exceed the virtual ones: the divisor is 1.
C27_Witness ==
    /\ an["z1"].call = "calculate_metrics"
    /\ an["z1"].bonding_curve.real_token_reserves > an["z1"].bonding_curve.virtual_token_reserves
    /\ an["z1"].metrics.price = an["z1"].metrics.liquidity
    /\ an["z1"].metrics.price.num > 0

RECURSIVE NoDuplicates(_)
NoDuplicates(seq) ==
    IF seq = <<>> THEN TRUE
    ELSE (\A i \in 2..Len(seq) : seq[i] # Head(seq)) /\ NoDuplicates(Tail(seq))

\* C29: the events handed to the callback are the events the feed loop
\* enqueued, in the order of enqueueing, each at most once; those not yet
\* handed over wait in the channel in that order, and when the dispatch loop
\* ends every enqueued event has been handed over.
C29_CallbackOncePerEventInOrder ==
    /\ delivered \o channel = sent
    /\ NoDuplicates(delivered)
    /\ \A n \in Events : handler[n] # "none" <=> \E i \in 1..Len(delivered) : delivered[i] = n
    /\ mpc.dispatch = "done" => delivered = sent

\* Several events were enqueued before the first was taken, and all were handed over.
C29_Witness ==
    /\ Len(delivered) = MaxEvents
    /\ delivered = sent
    /\ handler[1] = "running"
    /\ mpc.dispatch = "done"

(* ------------------------------- C30 ----------------------------------- *)
\* C30: every enqueued event is eventually handed to a handler task of its
\* own unless the process exits, whether or not the handlers of earlier
\* events ever return; an enqueue appends at once, however many events wait.
C30_DispatchDetached ==
    /\ \A n \in Events :
          (\E i \in 1..Len(sent) : sent[i] = n) ~> (handler[n] # "none" \/ mpc.main = "exited")
    /\ [][Len(sent') > Len(sent) => channel' = Append(channel, Len(sent'))]_vars

\* The handler of the first event never returned while the later ones were
\* dequeued and handled, and the feed enqueued while events were waiting.
C30_Witness ==
    /\ handler[1] = "running"
    /\ handler[2] = "returned"
    /\ handler[3] = "none"
    /\ Len(channel) = 1
    /\ Len(sent) = 3

(* ------------------------------- C31 ----------------------------------- *)
\* C31: a second on_new_token registration on the same monitor succeeds,
\* before and after stop(): the caller gets its callback registered.
C31_SecondRegistrationSucceeds ==
    consumer \in {"idle", "registered"}

(* ------------------------------- C32 ----------------------------------- *)
\* C32: when the analysis of an event fails, its handler ends without a buy:
\* AdmissionState and the ledger are unchanged, no buy task moves, the loops
\* are not disturbed, and every event enqueued before or after is still
\* handed to a handler of its own (unless the process exits).
C32_AnalysisFailureSkipsAsset ==
    /\ [][\A n \in Events :
            (handler[n] = "running" /\ handler'[n] = "failed") =>
                UNCHANGED <<trader_state, pc, bl, channel, mpc, sent, delivered>>]_vars
    /\ \A n \in Events :
          ((\E k \in Events : handler[k] = "failed") /\ (\E i \in 1..Len(sent) : sent[i] = n))
              ~> (handler[n] # "none" \/ mpc.main = "exited")

\* The analysis of the first event failed; a later event was handled and bought.
C32_Witness ==
    /\ handler[1] = "failed"
    /\ handler[2] = "running"
    /\ positions["a1"].status = "Open"

(* ------------------------------- C33 ----------------------------------- *)
\* C33: a status query changes no AdmissionState field and no ledger entry,
\* and the position count it reports is the number of positions that were
\* Open or Partial when it counted (Closed positions are not counted).
C33_StatusIsReadOnlyAndCountsLive ==
    /\ [][status_call' # status_call => UNCHANGED trader_state]_vars
    /\ [](status_call.pc = "done" =>
              status_call.positions_count = status_call.open_or_partial)

(* ------------------------------- C34 ----------------------------------- *)
\* C34: a sell that fails in an exit tick (transaction build or gateway send)
\* is absorbed: the tick ends without error and has refreshed and evaluated
\* every position it enumerated.
C34_TickAbsorbsSellFailures ==
    tick.pc = "done" => (tick.result = "Ok" /\ tick.visited = TickAssets)

(* ------------------------------- C35 ----------------------------------- *)
\* C35: in every ledger state status and amount agree: an entry is Closed if
\* and only if its amount is 0, and it is Partial only if its amount is above 0
\* and strictly below the amount it was opened with.
C35_StatusAgreesWithAmount ==
    \A a \in Assets :
        positions[a] # NoPosition =>
            /\ positions[a].status = "Closed" <=> positions[a].amount = 0
            /\ positions[a].status = "Partial" =>
                   (positions[a].amount > 0 /\ positions[a].amount < BuyAmount)

(* ------------------------------- C36 ----------------------------------- *)
\* C36: the amount of an asset in the ledger is what was bought minus what was
\* sold: the insert of a successful buy adds the bought amount to the amount
\* held (and keeps entry price and thresholds of a live entry), a settlement
\* takes the amount sold off it, and no other step changes it.
C36_LedgerAmountIsBoughtMinusSold ==
    [][/\ \A t \in Buyers :
             (Steps(t) /\ pc[t] = "create_position") =>
                 /\ positions'[bl[t].asset].amount = positions[bl[t].asset].amount + BuyAmount
                 /\ positions[bl[t].asset].status \in {"Open", "Partial"} =>
                        /\ positions'[bl[t].asset].entry_price = positions[bl[t].asset].entry_price
                        /\ positions'[bl[t].asset].take_profit_price
                               = positions[bl[t].asset].take_profit_price
                        /\ positions'[bl[t].asset].stop_loss_price
                               = positions[bl[t].asset].stop_loss_price
       /\ \A s \in Sellers \cup Engines :
             (Steps(s) /\ pc[s] = "settle" /\ positions' # positions) =>
                 positions'[sl[s].asset].amount
                     = positions[sl[s].asset].amount - sl[s].amount_to_sell
       /\ (\A t \in Buyers : ~(Steps(t) /\ pc[t] = "create_position"))
          /\ (\A s \in Sellers \cup Engines : ~(Steps(s) /\ pc[s] = "settle"))
             => \A a \in Assets : positions'[a].amount = positions[a].amount]_vars

(* ------------------------------- C37 ----------------------------------- *)
\* An exit predicate holds for the ledger entry of an asset.
ExitHolds(a) ==
    \/ should_take_profit(tick.state.positions[a])
    \/ should_stop_loss(tick.state.positions[a])

\* C37: in real mode with a gateway that always succeeds and exit ticks that
\* keep running, a position whose take-profit or stop-loss predicate holds
\* from some point on is eventually Closed, also when another position was
\* sold before it.
C37_ExitEventuallyCloses ==
    \A a \in TickAssets :
        <>[]ExitHolds(a) => <>(tick.state.positions[a].status = "Closed")

(* ------------------------------- C38 ----------------------------------- *)
\* C38: for at least one bonding curve and one token metadata the safety score
\* that perform_safety_checks computes reaches the threshold of 60, so that
\* the event passes should_trade_token (for some market cap and liquidity) and
\* reaches execute_buy.
C38_SomeEventPassesFilter ==
    \E bonding_curve \in BondingCurves \cup FetchedCurves, social \in BOOLEAN,
       mc \in MarketCapValues, lq \in LiquidityValues :
        LET safety == perform_safety_checks(bonding_curve,
                          [has_social_links |-> social, created_at |-> now])
        IN  /\ safety.score >= SafetyThreshold
            /\ should_trade_token([score |-> safety.score, market_cap |-> mc,
                                   liquidity |-> lq, price |-> EntryPrice])

(* ------------------------------- C39 ----------------------------------- *)
\* C39: under any interleaving of event handlers the daily count is reset at
\* most once per change of the UTC date, and no increment of a successful buy
\* is wiped by a concurrent reset: a handler writes 0 to daily_trades only
\* while the date it read still differs from last_reset_date, no other handler
\* is between the two writes of a reset for that date, and every other change
\* of the count is the increment by one of a successful buy.
C39_ResetOncePerDateChange ==
    [][\A t \in Buyers :
          /\ (pc[t] = "reset_count" /\ pc'[t] = "reset_key") =>
                /\ last_reset_date # bl[t].today
                /\ \A u \in Buyers \ {t} :
                       ~(pc[u] = "reset_key" /\ bl[u].today = bl[t].today)
          /\ (Steps(t) /\ pc[t] # "reset_count" /\ daily_trades' # daily_trades) =>
                (pc[t] = "track_count" /\ daily_trades' = daily_trades + 1)]_vars

(* ------------------------------- C40 ----------------------------------- *)
\* C40: is_monitoring is true only while a feed listener has been started:
\* once a call of PumpFunMonitor::start has returned (the caller is back
\* between calls), is_monitoring true means that the feed loop was spawned; a
\* start() that failed leaves is_monitoring false, so that a later start()
\* tries again.
C40_MonitoringMeansListener ==
    (mpc.main = "started" /\ is_monitoring) => mpc.feed # "none"

====
